---- MODULE Spec2Model ----
(***************************************************************************)
(* Verification model of AI-VideoTranslator.                               *)
(*                                                                         *)
(*   PipelineSpec : the `transcribe` command of videotranslator/cli.py     *)
(*                  with FFmpegService / WhisperService / save_srt and the *)
(*                  files on disk.                                         *)
(*   CloudSpec    : lib/aws/aws_transcript.py, job submission, the poll    *)
(*                  loop and the fetch of the result document.             *)
(*   BackendSpec  : the conversion of raw model / service output into      *)
(*                  subtitle segments (WhisperService.transcribe and       *)
(*                  convert_to_srt).                                       *)
(*   FormatSpec   : the SRT text of a result (to_srt, _format_timestamp),   *)
(*                  its conversion to VTT and its reading back in blocks.  *)
(*   TranslateSpec: examples/translate_example.py, translate_srt_file over *)
(*                  LibreTranslateClient.translate_sync.                   *)
(*   ExtractSpec  : FFmpegService.extract_audio called on its own.         *)
(*   MuxSpec      : FFmpegService.add_subtitles called on its own.         *)
(*   WhisperSpec  : calls of WhisperService.transcribe one after another,  *)
(*                  with the lazily loaded model of each instance.         *)
(*   WhisperThreadsSpec : two threads calling one fresh instance.          *)
(*   BatchSpec    : LibreTranslateClient.translate_batch_sync.             *)
(*   TwoRunsSpec  : two transcribe commands at the same time on one file   *)
(*                  system.                                                *)
(*                                                                         *)
(* Each specification drives its own variables; the variables of the other *)
(* parts keep their initial values.                                        *)
(***************************************************************************)
EXTENDS Integers, Sequences, FiniteSets, TLC

VARIABLES
    \* ---- transcribe command (cli.py:47-174)
    video_path,     \* resolved input path, a record [dir, stem, suffix]
    output_dir,     \* --output, "None" when not given
    add_to_video,   \* --add-to-video
    keep_audio,     \* --keep-audio
    fs,             \* the disk: path -> what the file holds ("absent" if none)
    pc,             \* position inside the command
    calls,          \* history: stages whose external capability was invoked
    extracted,      \* extract_audio returned normally in this run
    saved,          \* save_srt returned normally in this run
    raised,         \* the exception that left the try block, NoError if none
    exit_code,      \* process exit code once pc = "exit"
    error_msg,      \* what progress_manager.error printed
    reported,       \* progress_manager.success("All done!") was printed
    \* ---- cloud backend (lib/aws/aws_transcript.py)
    clock,          \* wall clock, in ticks of 1/TicksPerSecond seconds
    horizon,        \* the clock value up to which the runs are followed
    remote,         \* the transcription service: job name -> status
    submissions,    \* history: start_transcription_job requests, in order of arrival
    cpc,            \* per run: position in process_audio_file_with_aws
    job_name,       \* per run: job_name of transcribe_audio
    observed,       \* per run: statuses get_transcription_job returned
    slept,          \* per run: completed time.sleep(5) calls
    wake_at,        \* per run: clock value at which the sleep returns
    uri_read,       \* per run: line 36 read the transcript URI entry
    transcript_uri, \* per run: what transcribe_audio returned
    cerr,           \* per run: the exception that ended the run
    failed_stage,   \* per run: the stage whose operation failed, "none" if none
    fetched,        \* per run: the result document was requested
    \* ---- transcription backends (whisper.py, transcript_json_to_srt.py)
    backend,        \* which backend converts: "whisper", "aws" or "none"
    bpc,            \* "ready" before the conversion, "done" after it
    raw_segments,   \* result["segments"] of the Whisper model
    raw_items,      \* transcript_data['results']['items'] of the service
    segments,       \* TranscriptionResult.segments
    srt_blocks,     \* the blocks of the string convert_to_srt returns
    \* ---- subtitle text (models/transcription.py, services/subtitle.py)
    result_segments,\* TranscriptionResult.segments handed to to_srt
    fpc,            \* "ready" before to_srt, "srt" once the text exists
    stamps,         \* history: what _format_timestamp returned, per segment
    srt_content,    \* the text to_srt returned / save_srt wrote
    vtt_content,    \* what convert_srt_to_vtt wrote, empty before it ran
    read_back,      \* the SRT text has been split into blocks again
    parsed,         \* the blocks read back from srt_content
    \* ---- translation of an SRT file (examples/translate_example.py)
    tr_content,     \* content of the SRT file translate_srt_file reads
    tpc,            \* position inside translate_srt_file
    blocks,         \* blocks, the pieces of the content
    tr_i,           \* the block the loop is at (1-based)
    translated_blocks, \* translated_blocks
    requests,       \* history: the texts POSTed to the translation server
    outcomes,       \* history: per block, how its translation went
    tr_raised,      \* class of the exception that left the loop, "none" if none
    output_content, \* what was written to output_path
    \* ---- FFmpegService.extract_audio called on its own (services/ffmpeg.py)
    ex_video,       \* video_path
    ex_output,      \* output_path, NoPath when not given
    ex_before,      \* the disk when the call was made
    ex_fs,          \* the disk
    ex_pc,          \* "call" before the call, then "returned" or "raised"
    ex_runs,        \* history: output paths ffmpeg was run for
    ex_stderr,      \* what ffmpeg wrote to stderr when it failed, else "none"
    ex_ret,         \* the path extract_audio returned, NoPath if it did not
    ex_err,         \* the exception extract_audio raised
    \* ---- FFmpegService.add_subtitles called on its own (services/ffmpeg.py)
    mx_video,       \* video_path
    mx_subtitle,    \* subtitle_path
    mx_output,      \* output_path, NoPath when not given
    mx_before,      \* the disk when the call was made
    mx_fs,          \* the disk
    mx_pc,          \* "call" before the call, then "returned" or "raised"
    mx_runs,        \* history: output paths ffmpeg was run for
    mx_exit,        \* exit status of ffmpeg, 0 if it did not run
    mx_ret,         \* the path add_subtitles returned, NoPath if it did not
    mx_err,         \* the exception add_subtitles raised
    \* ---- WhisperService instances and the threads calling them (whisper.py)
    settings_language, \* settings.language
    wh_model,       \* per instance: self._model, 0 for None, else the object
    loads,          \* history: every whisper.load_model call, as called
    wpc,            \* per thread: position inside transcribe
    w_left,         \* per thread: transcribe calls it still has to make
    w_inst,         \* per thread: the instance of the call in progress
    w_lang,         \* per thread: the language argument of that call
    w_got,          \* per thread: the model object the call holds, 0 if none
    results,        \* history: how every transcribe call ended
    \* LibreTranslateClient.translate_batch_sync, one call
    bt_fn,              \* the batch function called
    bt_texts,           \* the texts argument
    bt_pc,              \* "loop", "returned", "raised"
    bt_i,               \* position of the for loop in texts
    bt_results,         \* the results list
    bt_calls,           \* history: the translate_sync calls made, in order
    bt_ret,             \* the list returned
    bt_raised,          \* class of the exception that left the call
    \* two transcribe commands running at the same time on one file system
    cc_video,           \* per run: the input video, [dir, stem]
    cc_out,             \* per run: --output, or "None"
    cc_add,             \* per run: --add-to-video
    cc_keep,            \* per run: --keep-audio
    cc_pc,              \* per run: the statement of cli.py the run is at
    cc_fs,              \* per artifact path: "absent" or the run that wrote it
    cc_touches          \* history: reads, writes and deletions of artifacts

pipeVars == <<video_path, output_dir, add_to_video, keep_audio, fs, pc, calls,
              extracted, saved, raised, exit_code, error_msg, reported>>

cloudVars == <<clock, horizon, remote, submissions, cpc, job_name, observed, slept,
               wake_at, uri_read, transcript_uri, cerr, failed_stage, fetched>>

backVars == <<backend, bpc, raw_segments, raw_items, segments, srt_blocks>>

fmtVars == <<result_segments, fpc, stamps, srt_content, vtt_content, read_back, parsed>>

trVars == <<tr_content, tpc, blocks, tr_i, translated_blocks, requests,
            outcomes, tr_raised, output_content>>

exVars == <<ex_video, ex_output, ex_before, ex_fs, ex_pc, ex_runs, ex_stderr,
            ex_ret, ex_err>>

muxVars == <<mx_video, mx_subtitle, mx_output, mx_before, mx_fs, mx_pc, mx_runs,
             mx_exit, mx_ret, mx_err>>

whVars == <<settings_language, wh_model, loads, wpc, w_left, w_inst, w_lang, w_got,
            results>>

batchVars == <<bt_fn, bt_texts, bt_pc, bt_i, bt_results, bt_calls, bt_ret, bt_raised>>

ccVars == <<cc_video, cc_out, cc_add, cc_keep, cc_pc, cc_fs, cc_touches>>

svcVars == <<fmtVars, trVars, exVars, muxVars, whVars, batchVars, ccVars>>

vars == <<pipeVars, cloudVars, backVars, svcVars>>

----------------------------------------------------------------------------
(* Paths.  A path is [dir, stem, suffix]; the stem is a sequence of name   *)
(* pieces so that f"{stem}_subtitled" is an Append.                        *)

Dirs == {"in", "out"}
Stems == {<<"x">>, <<"x", "_subtitled">>}
Suffixes == {".mp4", ".wav", ".srt"}
Paths == [dir : Dirs, stem : Stems, suffix : Suffixes]

\* cli.py:104-105
OutDir == IF output_dir = "None" THEN video_path.dir ELSE output_dir
\* cli.py:127
AudioPath == [dir |-> OutDir, stem |-> video_path.stem, suffix |-> ".wav"]
\* cli.py:134
SrtPath == [dir |-> OutDir, stem |-> video_path.stem, suffix |-> ".srt"]
\* cli.py:148
OutputVideoPath ==
    [dir |-> OutDir, stem |-> Append(video_path.stem, "_subtitled"),
     suffix |-> video_path.suffix]

\* Path.exists()
Exists(p) == fs[p] # "absent"

NoError == [stage |-> "none", msg |-> "none"]

\* the transcribe command is not running
PipeIdle ==
    /\ video_path = [dir |-> "in", stem |-> <<"x">>, suffix |-> ".mp4"]
    /\ output_dir = "None"
    /\ add_to_video = FALSE
    /\ keep_audio = FALSE
    /\ fs = [p \in Paths |-> IF p = video_path THEN "video" ELSE "absent"]
    /\ pc = "off"
    /\ calls = <<>>
    /\ extracted = FALSE
    /\ saved = FALSE
    /\ raised = NoError
    /\ exit_code = 0
    /\ error_msg = <<>>
    /\ reported = FALSE

\* no subtitle text is being formatted
FmtIdle ==
    /\ result_segments = <<>>
    /\ fpc = "off"
    /\ stamps = <<>>
    /\ srt_content = <<>>
    /\ vtt_content = <<>>
    /\ read_back = FALSE
    /\ parsed = <<>>

\* translate_srt_file is not running
TrIdle ==
    /\ tr_content = <<>>
    /\ tpc = "off"
    /\ blocks = <<>>
    /\ tr_i = 1
    /\ translated_blocks = <<>>
    /\ requests = <<>>
    /\ outcomes = <<>>
    /\ tr_raised = "none"
    /\ output_content = <<>>

NoException == [class |-> "none", stderr |-> "none"]

\* None where a Path is expected
NoPath == [dir |-> "none", stem |-> <<>>, suffix |-> "none"]

\* extract_audio is not being called on its own
ExIdle ==
    /\ ex_video = [dir |-> "in", stem |-> <<"x">>, suffix |-> ".mp4"]
    /\ ex_output = NoPath
    /\ ex_before = [p \in Paths |-> "absent"]
    /\ ex_fs = [p \in Paths |-> "absent"]
    /\ ex_pc = "off"
    /\ ex_runs = <<>>
    /\ ex_stderr = "none"
    /\ ex_ret = NoPath
    /\ ex_err = NoException

\* add_subtitles is not being called on its own
MxIdle ==
    /\ mx_video = [dir |-> "in", stem |-> <<"x">>, suffix |-> ".mp4"]
    /\ mx_subtitle = [dir |-> "in", stem |-> <<"x">>, suffix |-> ".srt"]
    /\ mx_output = NoPath
    /\ mx_before = [p \in Paths |-> "absent"]
    /\ mx_fs = [p \in Paths |-> "absent"]
    /\ mx_pc = "off"
    /\ mx_runs = <<>>
    /\ mx_exit = 0
    /\ mx_ret = NoPath
    /\ mx_err = NoException

Instances == {"s1", "s2"}
Threads == {"t1", "t2"}

\* each thread in active is about to make n transcribe calls
WhStart(active, n) ==
    /\ settings_language \in {"en", "es"}
    /\ wh_model = [i \in Instances |-> 0]
    /\ loads = <<>>
    /\ wpc = [t \in Threads |-> IF t \in active THEN "idle" ELSE "off"]
    /\ w_left = [t \in Threads |-> IF t \in active THEN n ELSE 0]
    /\ w_inst = [t \in Threads |-> "s1"]
    /\ w_lang = [t \in Threads |-> "None"]
    /\ w_got = [t \in Threads |-> 0]
    /\ results = <<>>

\* no WhisperService is in use
WhIdle ==
    /\ settings_language = "en"
    /\ wh_model = [i \in Instances |-> 0]
    /\ loads = <<>>
    /\ wpc = [t \in Threads |-> "off"]
    /\ w_left = [t \in Threads |-> 0]
    /\ w_inst = [t \in Threads |-> "s1"]
    /\ w_lang = [t \in Threads |-> "None"]
    /\ w_got = [t \in Threads |-> 0]
    /\ results = <<>>

BtIdle ==
    /\ bt_fn = "none"
    /\ bt_texts = <<>>
    /\ bt_pc = "idle"
    /\ bt_i = 0
    /\ bt_results = <<>>
    /\ bt_calls = <<>>
    /\ bt_ret = <<>>
    /\ bt_raised = "none"

\* the runs of a command that are under way at the same time
Runs == {"r1", "r2"}

\* the places videos are read from and artifacts are written to
CcDirs == {"a", "b"}
CcStems == {"x", "y"}
CcKinds == {".wav", ".srt", "_subtitled"}
Artifacts == [dir : CcDirs, stem : CcStems, kind : CcKinds]

CcStart(active) ==
    /\ cc_video \in [Runs -> [dir : CcDirs, stem : CcStems]]
    /\ cc_out \in [Runs -> {"None"} \cup CcDirs]
    /\ cc_add \in [Runs -> BOOLEAN]
    /\ cc_keep \in [Runs -> BOOLEAN]
    /\ cc_pc = [r \in Runs |-> IF r \in active THEN "extract" ELSE "idle"]
    /\ cc_fs = [p \in Artifacts |-> "absent"]
    /\ cc_touches = {}

CcIdle ==
    /\ cc_video = [r \in Runs |-> [dir |-> "a", stem |-> "x"]]
    /\ cc_out = [r \in Runs |-> "None"]
    /\ cc_add = [r \in Runs |-> FALSE]
    /\ cc_keep = [r \in Runs |-> FALSE]
    /\ cc_pc = [r \in Runs |-> "idle"]
    /\ cc_fs = [p \in Artifacts |-> "absent"]
    /\ cc_touches = {}

SvcIdle == FmtIdle /\ TrIdle /\ ExIdle /\ MxIdle /\ WhIdle /\ BtIdle /\ CcIdle

\* no backend conversion is running
BackIdle ==
    /\ backend = "none"
    /\ bpc = "off"
    /\ raw_segments = <<>>
    /\ raw_items = <<>>
    /\ segments = <<>>
    /\ srt_blocks = <<>>

\* Variant of ExceptHandler: the exception is logged and the command returns
\* normally.
ExceptHandler_Swallow(msg) == [exit_code |-> 0, printed |-> <<"Error: ", msg>>]

\* cli.py:171-174: the except block prints the exception and exits with 1
ExceptHandler(msg) == [exit_code |-> 1, printed |-> <<"Error: ", msg>>]

\* An exception raised by `stage` unwinds to the except block of the command.
Raise(stage, msg) ==
    /\ raised' = [stage |-> stage, msg |-> msg]
    /\ pc' = "exit"
    /\ exit_code' = ExceptHandler(msg).exit_code
    /\ error_msg' = ExceptHandler(msg).printed
    /\ UNCHANGED reported

NoRaise(next) ==
    /\ pc' = next
    /\ UNCHANGED <<raised, exit_code, error_msg, reported>>

\* history: the stage and the files that were on disk when it was invoked
Invoke(stage) ==
    calls' = Append(calls, [stage |-> stage,
                            present |-> {p \in Paths : Exists(p)}])

\* What a failed writer may leave at its output path: nothing new, or a
\* partially written file.
AfterFailedWrite(p) == {fs, [fs EXCEPT ![p] = "partial"]}

----------------------------------------------------------------------------
(* The cloud backend: lib/aws/aws_transcript.py (transcribe_audio is the    *)
(* same code in lib/aws.py).                                                *)

\* model resolution of the wall clock, and how long one run (MaxClock) and
\* two concurrent runs (ShortClock) are followed
TicksPerSecond == 2
MaxClock == 30
ShortClock == 3

\* aws_transcript.py:33, time.sleep(5)
PollInterval == 5

\* int(time.time())
EpochSeconds(t) == t \div TicksPerSecond

\* aws_transcript.py:20
JobName(t) == <<"TranscriptionJob_", EpochSeconds(t)>>

JobNames == {JobName(t) : t \in 0..MaxClock}

NoJob == <<>>
NoUri == <<>>

\* the TranscriptFileUri the service reports for a job
UriOf(name) == <<"uri", name>>

\* Variant of BreakStatuses: only COMPLETED ends the loop.
BreakStatuses_OnlyCompleted == {"COMPLETED"}

\* aws_transcript.py:30
BreakStatuses == {"COMPLETED", "FAILED"}

Last(q) == q[Len(q)]

CloudStart(active, until) ==
    /\ clock = 0
    /\ horizon = until
    /\ remote = [n \in JobNames |-> "none"]
    /\ submissions = <<>>
    /\ cpc = [r \in Runs |-> IF r \in active THEN "upload" ELSE "off"]
    /\ job_name = [r \in Runs |-> NoJob]
    /\ observed = [r \in Runs |-> <<>>]
    /\ slept = [r \in Runs |-> 0]
    /\ wake_at = [r \in Runs |-> 0]
    /\ uri_read = [r \in Runs |-> FALSE]
    /\ transcript_uri = [r \in Runs |-> NoUri]
    /\ cerr = [r \in Runs |-> "none"]
    /\ failed_stage = [r \in Runs |-> "none"]
    /\ fetched = [r \in Runs |-> FALSE]

CloudIdle == CloudStart({}, 0)

\* an exception leaves process_audio_file_with_aws (nothing catches it)
CloudRaise(r, kind) ==
    /\ cpc' = [cpc EXCEPT ![r] = "error"]
    /\ cerr' = [cerr EXCEPT ![r] = kind]
    /\ failed_stage' = [failed_stage EXCEPT ![r] = cpc[r]]

\* the wall clock advances
Tick ==
    /\ clock < horizon
    /\ clock' = clock + 1
    /\ UNCHANGED <<horizon, remote, submissions, cpc, job_name, observed, slept,
                   wake_at, uri_read, transcript_uri, cerr, failed_stage, fetched>>
    /\ UNCHANGED <<pipeVars, backVars, svcVars>>

\* The service changes the status it reports for a job.  COMPLETED and
\* FAILED are final; before them any status may follow any other.
RemoteAdvance(n) ==
    /\ remote[n] \in {"SUBMITTED", "IN_PROGRESS"}
    /\ \E st \in {"SUBMITTED", "IN_PROGRESS", "COMPLETED", "FAILED"} \ {remote[n]} :
          remote' = [remote EXCEPT ![n] = st]
    /\ UNCHANGED <<clock, horizon, submissions, cpc, job_name, observed, slept,
                   wake_at, uri_read, transcript_uri, cerr, failed_stage, fetched>>
    /\ UNCHANGED <<pipeVars, backVars, svcVars>>

\* aws_transcript.py:43-49, upload_file_to_s3
Upload(r) ==
    /\ cpc[r] = "upload"
    /\ \E ok \in BOOLEAN :
          IF ok THEN cpc' = [cpc EXCEPT ![r] = "submit"] /\ UNCHANGED <<cerr, failed_stage>>
                ELSE CloudRaise(r, "S3UploadFailedError")
    /\ UNCHANGED <<clock, horizon, remote, submissions, job_name, observed, slept,
                   wake_at, uri_read, transcript_uri, fetched>>
    /\ UNCHANGED <<pipeVars, backVars, svcVars>>

\* aws_transcript.py:20: the clock is read and fixes the job name
NameJob(r) ==
    /\ cpc[r] = "submit"
    /\ job_name' = [job_name EXCEPT ![r] = JobName(clock)]
    /\ cpc' = [cpc EXCEPT ![r] = "request"]
    /\ UNCHANGED <<clock, horizon, remote, submissions, observed, slept, wake_at,
                   uri_read, transcript_uri, cerr, failed_stage, fetched>>
    /\ UNCHANGED <<pipeVars, backVars, svcVars>>

\* aws_transcript.py:21-26: the request reaches the service, at any time
\* after the name was fixed.  The service rejects a job name it already
\* holds (ConflictException).  submissions is in the order of arrival.
Submit(r) ==
    /\ cpc[r] = "request"
    /\ submissions' = Append(submissions, [run |-> r, name |-> job_name[r]])
    /\ IF remote[job_name[r]] # "none"
       THEN /\ CloudRaise(r, "ConflictException")
            /\ UNCHANGED remote
       ELSE /\ remote' = [remote EXCEPT ![job_name[r]] = "SUBMITTED"]
            /\ cpc' = [cpc EXCEPT ![r] = "poll"]
            /\ UNCHANGED <<cerr, failed_stage>>
    /\ UNCHANGED <<clock, horizon, job_name, observed, slept, wake_at, uri_read,
                   transcript_uri, fetched>>
    /\ UNCHANGED <<pipeVars, backVars, svcVars>>

\* aws_transcript.py:29: get_transcription_job itself fails (the service
\* is not reached or refuses the call) and its exception leaves the loop
PollFails(r) ==
    /\ cpc[r] = "poll"
    /\ CloudRaise(r, "ClientError")
    /\ UNCHANGED <<clock, horizon, remote, submissions, job_name, observed, slept,
                   wake_at, uri_read, transcript_uri, fetched>>
    /\ UNCHANGED <<pipeVars, backVars, svcVars>>

\* aws_transcript.py:29-36: one status check that is answered; on a status
\* that ends the loop the transcript URI entry of that response is read and
\* returned.  The response of a FAILED job may or may not hold that entry:
\* without it the subscript raises KeyError.
Poll(r) ==
    /\ cpc[r] = "poll"
    /\ LET status == remote[job_name[r]] IN
       /\ observed' = [observed EXCEPT ![r] = Append(@, status)]
       /\ IF status \in BreakStatuses
          THEN /\ uri_read' = [uri_read EXCEPT ![r] = TRUE]
               /\ \E has_uri \in (IF status = "COMPLETED" THEN {TRUE} ELSE BOOLEAN) :
                     IF has_uri
                     THEN /\ transcript_uri' =
                                [transcript_uri EXCEPT ![r] = UriOf(job_name[r])]
                          /\ cpc' = [cpc EXCEPT ![r] = "fetch"]
                          /\ UNCHANGED <<cerr, failed_stage>>
                     ELSE /\ CloudRaise(r, "KeyError")
                          /\ UNCHANGED transcript_uri
               /\ UNCHANGED wake_at
          ELSE /\ cpc' = [cpc EXCEPT ![r] = "sleep"]
               /\ wake_at' = [wake_at EXCEPT ![r] = clock + PollInterval * TicksPerSecond]
               /\ UNCHANGED <<uri_read, transcript_uri, cerr, failed_stage>>
    /\ UNCHANGED <<clock, horizon, remote, submissions, job_name, slept, fetched>>
    /\ UNCHANGED <<pipeVars, backVars, svcVars>>

\* aws_transcript.py:33: time.sleep(5) returns
Wake(r) ==
    /\ cpc[r] = "sleep"
    /\ clock >= wake_at[r]
    /\ slept' = [slept EXCEPT ![r] = @ + 1]
    /\ cpc' = [cpc EXCEPT ![r] = "poll"]
    /\ UNCHANGED <<clock, horizon, remote, submissions, job_name, observed, wake_at,
                   uri_read, transcript_uri, cerr, failed_stage, fetched>>
    /\ UNCHANGED <<pipeVars, backVars, svcVars>>

\* aws_transcript.py:55, urllib.request.urlopen(transcript_uri)
Fetch(r) ==
    /\ cpc[r] = "fetch"
    /\ fetched' = [fetched EXCEPT ![r] = TRUE]
    /\ \E ok \in BOOLEAN :
          IF ok THEN cpc' = [cpc EXCEPT ![r] = "convert"] /\ UNCHANGED <<cerr, failed_stage>>
                ELSE CloudRaise(r, "URLError")
    /\ UNCHANGED <<clock, horizon, remote, submissions, job_name, observed, slept,
                   wake_at, uri_read, transcript_uri>>
    /\ UNCHANGED <<pipeVars, backVars, svcVars>>

\* aws_transcript.py:58-75: the transcript goes to a temporary file, is
\* parsed and converted to SRT; any of these may raise
Convert(r) ==
    /\ cpc[r] = "convert"
    /\ \E outcome \in {"ok", "OSError", "JSONDecodeError", "KeyError"} :
          IF outcome = "ok"
          THEN cpc' = [cpc EXCEPT ![r] = "write"] /\ UNCHANGED <<cerr, failed_stage>>
          ELSE CloudRaise(r, outcome)
    /\ UNCHANGED <<clock, horizon, remote, submissions, job_name, observed, slept,
                   wake_at, uri_read, transcript_uri, fetched>>
    /\ UNCHANGED <<pipeVars, backVars, svcVars>>

\* aws_transcript.py:77-83, the SRT file is written
WriteSrt(r) ==
    /\ cpc[r] = "write"
    /\ \E ok \in BOOLEAN :
          IF ok THEN cpc' = [cpc EXCEPT ![r] = "mux"] /\ UNCHANGED <<cerr, failed_stage>>
                ELSE CloudRaise(r, "OSError")
    /\ UNCHANGED <<clock, horizon, remote, submissions, job_name, observed, slept,
                   wake_at, uri_read, transcript_uri, fetched>>
    /\ UNCHANGED <<pipeVars, backVars, svcVars>>

\* aws_transcript.py:86 and add_subtitles_to_video.py:3-14: an ffmpeg.Error
\* of ffmpeg.run is caught and printed, the function returns None, and so
\* does process_audio_file_with_aws
Mux(r) ==
    /\ cpc[r] = "mux"
    /\ cpc' = [cpc EXCEPT ![r] = "returned"]
    /\ \E ok \in BOOLEAN :
          failed_stage' = [failed_stage EXCEPT ![r] = IF ok THEN @ ELSE "mux"]
    /\ UNCHANGED <<clock, horizon, remote, submissions, job_name, observed, slept,
                   wake_at, uri_read, transcript_uri, cerr, fetched>>
    /\ UNCHANGED <<pipeVars, backVars, svcVars>>

CloudNext ==
    \/ Tick
    \/ \E n \in JobNames : RemoteAdvance(n)
    \/ \E r \in Runs : Upload(r)
    \/ \E r \in Runs : NameJob(r)
    \/ \E r \in Runs : Submit(r)
    \/ \E r \in Runs : PollFails(r)
    \/ \E r \in Runs : Poll(r)
    \/ \E r \in Runs : Wake(r)
    \/ \E r \in Runs : Fetch(r)
    \/ \E r \in Runs : Convert(r)
    \/ \E r \in Runs : WriteSrt(r)
    \/ \E r \in Runs : Mux(r)

\* one run of the cloud backend
CloudInit == PipeIdle /\ CloudStart({"r1"}, MaxClock) /\ BackIdle /\ SvcIdle

CloudSpec == CloudInit /\ [][CloudNext]_vars

\* Two runs of the cloud backend at the same time, followed for ShortClock
\* ticks: shorter than one time.sleep(5), so no sleep returns.
ConcurrentNext ==
    \/ Tick
    \/ \E n \in JobNames : RemoteAdvance(n)
    \/ \E r \in Runs : Upload(r)
    \/ \E r \in Runs : NameJob(r)
    \/ \E r \in Runs : Submit(r)
    \/ \E r \in Runs : PollFails(r)
    \/ \E r \in Runs : Poll(r)
    \/ \E r \in Runs : Fetch(r)
    \/ \E r \in Runs : Convert(r)
    \/ \E r \in Runs : WriteSrt(r)
    \/ \E r \in Runs : Mux(r)

ConcurrentInit == PipeIdle /\ CloudStart(Runs, ShortClock) /\ BackIdle /\ SvcIdle

ConcurrentCloudSpec == ConcurrentInit /\ [][ConcurrentNext]_vars

----------------------------------------------------------------------------
(* Claims about the cloud backend.                                         *)

\* the longest wait, in seconds, C6 is tested against
MaxWaitSeconds == 10

\* C4: the poll loop makes no status check after a COMPLETED or FAILED
\* status was returned, ends exactly at the first such status (so the
\* number of checks is the position of the first terminal status), and on
\* COMPLETED returns the result URI of that job.
C4_PollStopsAtFirstTerminal ==
    \A r \in Runs :
        /\ \A i \in 1..(Len(observed[r]) - 1) :
              observed[r][i] \notin {"COMPLETED", "FAILED"}
        /\ cpc[r] \in {"poll", "sleep"} =>
              \A i \in 1..Len(observed[r]) :
                  observed[r][i] \notin {"COMPLETED", "FAILED"}
        /\ cpc[r] \in {"fetch", "convert"} \/ uri_read[r] =>
              /\ Len(observed[r]) > 0
              /\ Last(observed[r]) \in {"COMPLETED", "FAILED"}
        /\ (Len(observed[r]) > 0 /\ Last(observed[r]) = "COMPLETED") =>
              transcript_uri[r] = UriOf(job_name[r])

\* C4 witness: statuses SUBMITTED, IN_PROGRESS, IN_PROGRESS, COMPLETED were
\* returned, four checks were made and the URI was returned.
C4_Witness ==
    /\ observed["r1"] = <<"SUBMITTED", "IN_PROGRESS", "IN_PROGRESS", "COMPLETED">>
    /\ slept["r1"] = 3
    /\ cpc["r1"] = "fetch"
    /\ transcript_uri["r1"] = UriOf(job_name["r1"])

\* C5: when the polled job is FAILED the run fails with
\* TranscriptionJobError, never reads a result URI and never fetches a
\* result document.
C5_FailedJobRaisesJobError ==
    \A r \in Runs :
        (Len(observed[r]) > 0 /\ Last(observed[r]) = "FAILED") =>
            /\ cpc[r] = "error"
            /\ cerr[r] = "TranscriptionJobError"
            /\ ~uri_read[r]
            /\ ~fetched[r]

\* C6: a run is never still polling after the maximum wait: once it has
\* waited MaxWaitSeconds without a terminal status it has stopped (with
\* JobTimeoutError).
C6_PollingStopsAfterMaxWait ==
    \A r \in Runs :
        PollInterval * slept[r] >= MaxWaitSeconds =>
            /\ cpc[r] \notin {"poll", "sleep"}
            /\ (Len(observed[r]) = 0
                \/ Last(observed[r]) \notin {"COMPLETED", "FAILED"}) =>
                  cerr[r] = "JobTimeoutError"

\* C7: any two job submissions use different job names.
C7_UniqueJobNames ==
    \A i, j \in 1..Len(submissions) :
        i # j => submissions[i].name # submissions[j].name

\* C22: in the cloud pipeline a failure of any stage, the final mux step
\* included, reaches the caller as an exception: no run whose stage failed
\* returns normally.
C22_StageFailuresPropagate ==
    \A r \in Runs :
        failed_stage[r] # "none" => (cpc[r] = "error" /\ cerr[r] # "none")

----------------------------------------------------------------------------
(* Text and times.  A Python str is a sequence of one-character strings; a  *)
(* time is a number of milliseconds t and stands for the float t / 1000    *)
(* that a segment or an item holds.                                        *)

NL == "\n"

DigitChar == <<"0", "1", "2", "3", "4", "5", "6", "7", "8", "9">>

\* str(n) / f"{n}" for an int n >= 0
RECURSIVE Decimal(_)
Decimal(n) ==
    IF n < 10 THEN <<DigitChar[n + 1]>>
    ELSE Append(Decimal(n \div 10), DigitChar[(n % 10) + 1])

\* f"{n:02d}" / f"{n:03d}": zeros on the left up to the width, never cut
RECURSIVE ZeroPad(_, _)
ZeroPad(n, width) ==
    IF Len(Decimal(n)) >= width THEN Decimal(n)
    ELSE <<"0">> \o ZeroPad(n, width - 1)

\* sep.join(parts)
RECURSIVE Join(_, _)
Join(parts, sep) ==
    IF parts = <<>> THEN <<>>
    ELSE IF Len(parts) = 1 THEN parts[1]
    ELSE parts[1] \o sep \o Join(Tail(parts), sep)

\* the places at or after position from where sep occurs in text
Occurrences(text, sep, from) ==
    {i \in from..(Len(text) - Len(sep) + 1) :
        SubSeq(text, i, i + Len(sep) - 1) = sep}

\* text.split(sep): the pieces between the occurrences of sep, found from
\* the left without overlap; from is where the piece being collected starts
RECURSIVE SplitFrom(_, _, _)
SplitFrom(text, sep, from) ==
    IF Occurrences(text, sep, from) = {}
    THEN <<SubSeq(text, from, Len(text))>>
    ELSE LET i == CHOOSE j \in Occurrences(text, sep, from) :
                     \A k \in Occurrences(text, sep, from) : j <= k
         IN  <<SubSeq(text, from, i - 1)>> \o SplitFrom(text, sep, i + Len(sep))

Split(text, sep) == SplitFrom(text, sep, 1)

\* text.replace(old, new) for single characters
Replace(text, old, new) ==
    [i \in 1..Len(text) |-> IF text[i] = old THEN new ELSE text[i]]

(* _format_timestamp works on a float.  The segment holds the double x    *)
(* nearest to t / 1000.  With e the binary exponent of x, x = N * 2^(e-52) *)
(* where N is t * 2^(52-e) / 1000 rounded to the nearest integer, ties to  *)
(* even.  Integers are doubles, so //, % 3600 and % 60 give what they give *)
(* on t / 1000 itself; x % 1 is exact and (x % 1) * 1000 is the double     *)
(* nearest to (t mod 1000) + d / 2^(52-e), d being the rounding error of N *)
(* in thousandths.  The operators below compute d and that last rounding   *)
(* with remainders modulo 2000, so that no number exceeds 32 bits.         *)

RECURSIVE Pow2(_)
Pow2(k) == IF k = 0 THEN 1 ELSE 2 * Pow2(k - 1)

RECURSIVE Pow2Mod(_, _)
Pow2Mod(k, n) == IF k = 0 THEN 1 ELSE (2 * Pow2Mod(k - 1, n)) % n

RECURSIVE FloorLog2(_)
FloorLog2(n) == IF n < 2 THEN 0 ELSE 1 + FloorLog2(n \div 2)

RECURSIVE Doublings(_)
Doublings(v) == IF v >= 1000 THEN 0 ELSE 1 + Doublings(2 * v)

\* the binary exponent of the double t / 1000, t >= 1
FloatExponent(t) ==
    IF t >= 1000 THEN FloorLog2(t \div 1000) ELSE 0 - Doublings(t)

\* t * 2^(52 - e) modulo 2000: the remainder that decides how float(t/1000)
\* was rounded
ScaledRemainder(t) ==
    ((t % 2000) * Pow2Mod(52 - FloatExponent(t), 2000)) % 2000

\* the double is below t / 1000: N was rounded down
RoundedDown(t) ==
    LET r == ScaledRemainder(t) % 1000
    IN  \/ (0 < r /\ r < 500)
        \/ (r = 500 /\ ScaledRemainder(t) < 1000)

\* int((seconds % 1) * 1000), transcription.py:40
Millis(t) ==
    LET m  == t % 1000
        r  == ScaledRemainder(t) % 1000
        e2 == FloorLog2(m)
        k  == e2 - FloatExponent(t) - (IF Pow2(e2) = m THEN 2 ELSE 1)
    IN  IF m = 0 \/ ~RoundedDown(t) THEN m
        ELSE IF k < 0 \/ r > Pow2(k) THEN m - 1
        ELSE m

\* transcription.py:27-42 and transcript_json_to_srt.py:12-18
FormatTimestamp(t) ==
    LET hours   == t \div 3600000
        minutes == (t % 3600000) \div 60000
        secs    == (t % 60000) \div 1000
    IN  ZeroPad(hours, 2) \o <<":">> \o ZeroPad(minutes, 2) \o <<":">>
        \o ZeroPad(secs, 2) \o <<",">> \o ZeroPad(Millis(t), 3)

\* HH:MM:SS,mmm of a time of t whole milliseconds, by integer arithmetic
ExactTimestamp(t) ==
    ZeroPad(t \div 3600000, 2) \o <<":">>
    \o ZeroPad((t % 3600000) \div 60000, 2) \o <<":">>
    \o ZeroPad((t % 60000) \div 1000, 2) \o <<",">>
    \o ZeroPad(t % 1000, 3)

----------------------------------------------------------------------------
(* The transcription backends: raw model / service output to segments.     *)
(* Times are in milliseconds; a text is a sequence of characters.          *)

MaxSegs == 2
MaxItems == 3
MaxTime == 2

\* texts the Whisper model returns: with leading blank, blank only, empty
RawTexts == {<<" ", "a">>, <<"a", " ">>, <<" ", " ">>, <<>>}

RawSegment ==
    {g \in [start : 0..MaxTime, end : 0..MaxTime, text : RawTexts] :
        g.start <= g.end}

\* times of the items of a transcript document, in milliseconds: the
\* service writes them as decimal strings such as "2.3"
ItemTimes == {0, 1001, 2300, 2500}

\* items of a transcript document: pronunciation items carry times,
\* punctuation items carry none
RawItem ==
    {m \in [type : {"pronunciation"}, start_time : ItemTimes,
            end_time : ItemTimes, content : {"a", "b"}] :
        m.start_time <= m.end_time}
    \cup [type : {"punctuation"}, content : {","}]

SeqsUpTo(S, n) == UNION {[1..k -> S] : k \in 0..n}

\* str.isspace() for the characters the model uses
IsSpace(c) == c \in {" ", "\n", "\t"}

\* str.lstrip() / str.rstrip() / str.strip()
RECURSIVE LStrip(_)
LStrip(t) == IF t # <<>> /\ IsSpace(Head(t)) THEN LStrip(Tail(t)) ELSE t
RECURSIVE RStrip(_)
RStrip(t) ==
    IF t # <<>> /\ IsSpace(t[Len(t)]) THEN RStrip(SubSeq(t, 1, Len(t) - 1)) ELSE t
Strip(t) == RStrip(LStrip(t))

\* whisper.py:80-88: enumerate(result["segments"], start=1)
ToSegments(raw) ==
    [i \in 1..Len(raw) |->
        [index |-> i,
         start_time |-> raw[i].start,
         end_time |-> raw[i].end,
         text |-> Strip(raw[i].text)]]

\* transcript_json_to_srt.py:8-21: what one pronunciation item adds to the
\* SRT string: the counter, the two timestamps formatted from the floats
\* of lines 8-9, and the content.  start_time and end_time are those floats.
SrtBlock(counter, item) ==
    [counter |-> counter,
     start_time |-> item.start_time,
     end_time |-> item.end_time,
     start_timestamp |-> FormatTimestamp(item.start_time),
     end_timestamp |-> FormatTimestamp(item.end_time),
     content |-> item.content]

\* Variant of SrtLoop: the counter advances for every item of the document.
RECURSIVE SrtLoop_CountAll(_, _, _)
SrtLoop_CountAll(items, counter, srt) ==
    IF items = <<>> THEN srt
    ELSE IF Head(items).type = "pronunciation"
    THEN SrtLoop_CountAll(Tail(items), counter + 1,
                          Append(srt, SrtBlock(counter, Head(items))))
    ELSE SrtLoop_CountAll(Tail(items), counter + 1, srt)

\* transcript_json_to_srt.py:6-22: the loop over the items, with the
\* counter and the string built so far
RECURSIVE SrtLoop(_, _, _)
SrtLoop(items, counter, srt) ==
    IF items = <<>> THEN srt
    ELSE IF Head(items).type = "pronunciation"
    THEN SrtLoop(Tail(items), counter + 1,
                 Append(srt, SrtBlock(counter, Head(items))))
    ELSE SrtLoop(Tail(items), counter, srt)

\* transcript_json_to_srt.py:1-24 (the same code in lib/json_to_srt.py)
ConvertToSrt(items) == SrtLoop(items, 1, <<>>)

BackStart ==
    /\ backend \in {"whisper", "aws"}
    /\ bpc = "ready"
    /\ raw_segments \in (IF backend = "whisper"
                         THEN SeqsUpTo(RawSegment, MaxSegs) ELSE {<<>>})
    /\ raw_items \in (IF backend = "aws"
                      THEN SeqsUpTo(RawItem, MaxItems) ELSE {<<>>})
    /\ segments = <<>>
    /\ srt_blocks = <<>>

\* whisper.py:79-94
WhisperConvert ==
    /\ backend = "whisper"
    /\ bpc = "ready"
    /\ segments' = ToSegments(raw_segments)
    /\ bpc' = "done"
    /\ UNCHANGED <<backend, raw_segments, raw_items, srt_blocks>>
    /\ UNCHANGED <<pipeVars, cloudVars, svcVars>>

\* aws_transcript.py:67-68, convert_to_srt(data)
AwsConvert ==
    /\ backend = "aws"
    /\ bpc = "ready"
    /\ srt_blocks' = ConvertToSrt(raw_items)
    /\ bpc' = "done"
    /\ UNCHANGED <<backend, raw_segments, raw_items, segments>>
    /\ UNCHANGED <<pipeVars, cloudVars, svcVars>>

BackNext ==
    \/ WhisperConvert
    \/ AwsConvert

BackInit == PipeIdle /\ CloudIdle /\ BackStart /\ SvcIdle

BackendSpec == BackInit /\ [][BackNext]_vars

----------------------------------------------------------------------------
(* Claims about the transcription backends.                                *)

\* C8: in every result a backend produces, adjacent segments do not
\* overlap: each segment ends no later than the next one starts.
C8_NoOverlapInResults ==
    bpc = "done" =>
        /\ \A i \in 1..(Len(segments) - 1) :
              segments[i].end_time <= segments[i + 1].start_time
        /\ \A i \in 1..(Len(srt_blocks) - 1) :
              srt_blocks[i].end_time <= srt_blocks[i + 1].start_time

\* C9: the i-th emitted segment has index i (1-based, contiguous), for the
\* Whisper backend and for the item-to-SRT conversion, where items that are
\* filtered out consume no index.
C9_IndicesContiguous ==
    bpc = "done" =>
        /\ \A i \in 1..Len(segments) : segments[i].index = i
        /\ \A i \in 1..Len(srt_blocks) : srt_blocks[i].counter = i

\* C9 witness: a document with a punctuation item between two
\* pronunciation items was converted into two blocks.
C9_Witness ==
    /\ bpc = "done"
    /\ backend = "aws"
    /\ Len(raw_items) = 3
    /\ raw_items[2].type = "punctuation"
    /\ Len(srt_blocks) = 2

\* C10: every segment the local backend puts into a result has
\* start_time >= 0, end_time > start_time and a non-empty text.
C10_SegmentsWellFormed ==
    (bpc = "done" /\ backend = "whisper") =>
        \A i \in 1..Len(segments) :
            /\ segments[i].start_time >= 0
            /\ segments[i].end_time > segments[i].start_time
            /\ segments[i].text # <<>>

\* the items of a document that convert_to_srt is to keep, in document order
PronunciationItems(items) ==
    SelectSeq(items, LAMBDA m : m.type = "pronunciation")

\* C11: convert_to_srt keeps exactly the pronunciation items, in document
\* order, and drops every other item; each kept item is one block with that
\* item's own start time, end time and content, so there are as many blocks
\* as pronunciation items and no two items are merged.
C11_OneBlockPerPronunciationItem ==
    (bpc = "done" /\ backend = "aws") =>
        /\ Len(srt_blocks) = Len(PronunciationItems(raw_items))
        /\ \A i \in 1..Len(srt_blocks) :
              /\ srt_blocks[i].start_timestamp =
                    ExactTimestamp(PronunciationItems(raw_items)[i].start_time)
              /\ srt_blocks[i].end_timestamp =
                    ExactTimestamp(PronunciationItems(raw_items)[i].end_time)
              /\ srt_blocks[i].content = PronunciationItems(raw_items)[i].content

\* Apart from the times written: as many blocks as pronunciation items, in
\* document order, each with its item's content and with the timestamps
\* the formatting of lines 13-18 gives for its item's times.
BlocksFollowItems ==
    (bpc = "done" /\ backend = "aws") =>
        /\ Len(srt_blocks) = Len(PronunciationItems(raw_items))
        /\ \A i \in 1..Len(srt_blocks) :
              srt_blocks[i] = SrtBlock(i, PronunciationItems(raw_items)[i])

\* A document that opens with a punctuation item followed by two different
\* words with different times was converted into two blocks.
TwoWordsConverted ==
    /\ bpc = "done"
    /\ backend = "aws"
    /\ Len(raw_items) = 3
    /\ raw_items[1].type = "punctuation"
    /\ raw_items[2].type = "pronunciation"
    /\ raw_items[3].type = "pronunciation"
    /\ raw_items[2].end_time < raw_items[3].end_time
    /\ raw_items[2].content # raw_items[3].content
    /\ Len(srt_blocks) = 2

----------------------------------------------------------------------------
(* The SRT and VTT text of a result, and its reading back in blocks.      *)

Arrow == <<" ", "-", "-", ">", " ">>

\* transcription.py:16-25
ToSrtFormat(seg) ==
    Decimal(seg.index) \o <<NL>>
    \o FormatTimestamp(seg.start_time) \o Arrow \o FormatTimestamp(seg.end_time)
    \o <<NL>> \o seg.text \o <<NL>>

\* transcription.py:53-60
ToSrt(segs) == Join([i \in 1..Len(segs) |-> ToSrtFormat(segs[i])], <<NL>>)

VttHeader == <<"W", "E", "B", "V", "T", "T", NL, NL>>

\* subtitle.py:47
ToVtt(content) == VttHeader \o Replace(content, ",", ".")

\* translate_example.py:47
Blocks(content) == Split(Strip(content), <<NL, NL>>)

\* translate_example.py:53-59: the lines of one block; a block of fewer
\* than three lines is not taken apart
ReadBlock(block) ==
    LET lines == Split(block, <<NL>>)
    IN  IF Len(lines) >= 3
        THEN [well_formed |-> TRUE, number |-> lines[1], timestamp |-> lines[2],
              text |-> Join(SubSeq(lines, 3, Len(lines)), <<NL>>)]
        ELSE [well_formed |-> FALSE, number |-> <<>>, timestamp |-> <<>>,
              text |-> block]

ReadBlocks(content) ==
    [i \in 1..Len(Blocks(content)) |-> ReadBlock(Blocks(content)[i])]

MaxResultSegs == 2

\* start and end times of segments, in milliseconds
TimePoints == {0, 1001, 2300, 2500, 3600000, 3661500, 90000000}

Texts == {<<"h", "e", "l", "l", "o">>, <<"a", ",", "b">>, <<"a", NL, "b">>}

TimedText ==
    {g \in [start_time : TimePoints, end_time : TimePoints, text : Texts] :
        g.start_time < g.end_time}

\* results with contiguous indices from 1 and ordered, non-overlapping times
ResultSegments ==
    {[i \in 1..Len(q) |->
        [index |-> i, start_time |-> q[i].start_time,
         end_time |-> q[i].end_time, text |-> q[i].text]] :
     q \in {u \in SeqsUpTo(TimedText, MaxResultSegs) :
               \A i \in 1..(Len(u) - 1) : u[i].end_time <= u[i + 1].start_time}}

FmtStart ==
    /\ result_segments \in ResultSegments
    /\ fpc = "ready"
    /\ stamps = <<>>
    /\ srt_content = <<>>
    /\ vtt_content = <<>>
    /\ read_back = FALSE
    /\ parsed = <<>>

\* transcription.py:53-70, to_srt / save_srt
FormatSrt ==
    /\ fpc = "ready"
    /\ stamps' = [i \in 1..Len(result_segments) |->
                    [start |-> FormatTimestamp(result_segments[i].start_time),
                     end |-> FormatTimestamp(result_segments[i].end_time)]]
    /\ srt_content' = ToSrt(result_segments)
    /\ fpc' = "srt"
    /\ UNCHANGED <<result_segments, vtt_content, read_back, parsed>>
    /\ UNCHANGED <<pipeVars, cloudVars, backVars, trVars, exVars, muxVars, whVars, batchVars, ccVars>>

\* subtitle.py:26-53
ConvertSrtToVtt ==
    /\ fpc = "srt"
    /\ vtt_content = <<>>
    /\ vtt_content' = ToVtt(srt_content)
    /\ UNCHANGED <<result_segments, fpc, stamps, srt_content, read_back, parsed>>
    /\ UNCHANGED <<pipeVars, cloudVars, backVars, trVars, exVars, muxVars, whVars, batchVars, ccVars>>

\* translate_example.py:43-59
ReadSrt ==
    /\ fpc = "srt"
    /\ ~read_back
    /\ parsed' = ReadBlocks(srt_content)
    /\ read_back' = TRUE
    /\ UNCHANGED <<result_segments, fpc, stamps, srt_content, vtt_content>>
    /\ UNCHANGED <<pipeVars, cloudVars, backVars, trVars, exVars, muxVars, whVars, batchVars, ccVars>>

FmtNext ==
    \/ FormatSrt
    \/ ConvertSrtToVtt
    \/ ReadSrt

FmtInit == PipeIdle /\ CloudIdle /\ BackIdle /\ FmtStart /\ TrIdle /\ ExIdle /\ MxIdle /\ WhIdle /\ BtIdle /\ CcIdle

FormatSpec == FmtInit /\ [][FmtNext]_vars

----------------------------------------------------------------------------
(* Claims about the subtitle text.                                         *)

\* C12: to_srt emits for every segment, the last one included, the block
\* index NEWLINE start --> end NEWLINE text NEWLINE NEWLINE, so the text is
\* the concatenation of blocks that each end with a blank line.
C12_EveryBlockEndsWithBlankLine ==
    fpc = "srt" =>
        srt_content =
            Join([i \in 1..Len(result_segments) |->
                    Decimal(result_segments[i].index) \o <<NL>>
                    \o stamps[i].start \o Arrow \o stamps[i].end \o <<NL>>
                    \o result_segments[i].text \o <<NL, NL>>], <<>>)

\* C13: for every time t of whole milliseconds the formatted timestamp is
\* HH:MM:SS,mmm with HH = t div 1 h (two digits or more, not reduced modulo
\* 24), MM = (t mod 1 h) div 1 min, SS = (t mod 1 min) div 1 s and
\* mmm = t mod 1 s.
C13_TimestampIsExact ==
    fpc = "srt" =>
        \A i \in 1..Len(result_segments) :
            /\ stamps[i].start = ExactTimestamp(result_segments[i].start_time)
            /\ stamps[i].end = ExactTimestamp(result_segments[i].end_time)

\* C14: splitting the text to_srt produced into blank-line-delimited blocks
\* and reading each as index line, timestamp line and text lines gives back
\* the original segments: as many, each with its index, timing and text.
C14_RoundTrip ==
    read_back =>
        LET back == SelectSeq(parsed, LAMBDA b : b.well_formed)
        IN  /\ Len(back) = Len(result_segments)
            /\ \A i \in 1..Len(back) :
                  /\ back[i].number = Decimal(result_segments[i].index)
                  /\ back[i].timestamp =
                        ExactTimestamp(result_segments[i].start_time) \o Arrow
                        \o ExactTimestamp(result_segments[i].end_time)
                  /\ back[i].text = result_segments[i].text

\* C15: the VTT text is "WEBVTT", a blank line and the SRT text in which
\* the comma of every timestamp is a period and nothing else is changed;
\* commas in the subtitle text stay commas.
C15_OnlyTimestampCommasReplaced ==
    vtt_content # <<>> =>
        vtt_content =
            VttHeader \o
            Join([i \in 1..Len(result_segments) |->
                    Decimal(result_segments[i].index) \o <<NL>>
                    \o Replace(stamps[i].start, ",", ".") \o Arrow
                    \o Replace(stamps[i].end, ",", ".") \o <<NL>>
                    \o result_segments[i].text \o <<NL>>], <<NL>>)

----------------------------------------------------------------------------
(* Translation of an SRT file: translate_srt_file over translate_sync.     *)

MaxTrSegs == 3

\* texts of segments; whisper.py:86 strips a text, so a segment of silence
\* is written with the empty text
TrTexts == {<<"a">>, <<"a", NL, "b">>, <<" ">>, <<>>}

\* the files save_srt can have written: segment i lasts from 2.5 * (i - 1)
\* to 2.5 * i seconds
TrContents ==
    {ToSrt([i \in 1..Len(q) |->
              [index |-> i, start_time |-> 2500 * (i - 1),
               end_time |-> 2500 * i, text |-> q[i]]]) :
     q \in SeqsUpTo(TrTexts, MaxTrSegs)}

\* what the server does with one request: an answer, an HTTP error status,
\* a transport error, or a body without "translatedText"
Answers == {<<"T">>, <<"T", NL, "U">>}
Replies ==
    [kind : {"ok"}, answer : Answers]
    \cup [kind : {"http_status", "request_error", "bad_format"}, answer : {<<>>}]

\* Variant of IsBlank: only the empty string is passed through.
IsBlank_EmptyOnly(text) == text = <<>>

\* Variant of IsBlank: the guard written as text.isspace(), which is false
\* of the empty string.
IsBlank_IsSpace(text) == text # <<>> /\ Strip(text) = <<>>

\* translator.py:133 (and :66), not text or not text.strip()
IsBlank(text) == text = <<>> \/ Strip(text) = <<>>

\* Variant of ErrorClass: a transport error leaves translate_sync as the
\* httpx exception it is.
ErrorClass_TransportUnwrapped(kind) ==
    IF kind = "request_error" THEN "RequestError" ELSE "TranslationError"

\* translator.py:157-158 and 167-178: the class of what translate_sync raises
ErrorClass(kind) == "TranslationError"

\* translator.py:46-111: the guard of lines 66-67, then the request and
\* what is made of the reply
Translate(text, reply) ==
    IF IsBlank(text)
    THEN [raised |-> "none", value |-> text, requested |-> FALSE]
    ELSE IF reply.kind = "ok"
    THEN [raised |-> "none", value |-> reply.answer, requested |-> TRUE]
    ELSE [raised |-> ErrorClass(reply.kind), value |-> <<>>, requested |-> TRUE]

\* translator.py:113-178: the guard of lines 133-134, then the request and
\* what is made of the reply
TranslateSync(text, reply) ==
    IF IsBlank(text)
    THEN [raised |-> "none", value |-> text, requested |-> FALSE]
    ELSE IF reply.kind = "ok"
    THEN [raised |-> "none", value |-> reply.answer, requested |-> TRUE]
    ELSE [raised |-> ErrorClass(reply.kind), value |-> <<>>, requested |-> TRUE]

\* Variant of TranslatedBlock: the block is rebuilt without its number line.
TranslatedBlock_NoNumber(number, timestamp, translated_text) ==
    timestamp \o <<NL>> \o translated_text

\* translate_example.py:64
TranslatedBlock(number, timestamp, translated_text) ==
    number \o <<NL>> \o timestamp \o <<NL>> \o translated_text

\* Variant of MalformedBlock: a block that is not taken apart is left out
\* of the text written.
MalformedBlock_Emptied(block) == <<>>

\* translate_example.py:71-73, a malformed block is kept as it is
MalformedBlock(block) == block

\* the segments the file read was written from
TrSegments ==
    CHOOSE q \in SeqsUpTo(TrTexts, MaxTrSegs) :
        tr_content = ToSrt([i \in 1..Len(q) |->
                              [index |-> i, start_time |-> 2500 * (i - 1),
                               end_time |-> 2500 * i, text |-> q[i]]])

TrStart ==
    /\ tr_content \in TrContents
    /\ tpc = "read"
    /\ blocks = <<>>
    /\ tr_i = 1
    /\ translated_blocks = <<>>
    /\ requests = <<>>
    /\ outcomes = <<>>
    /\ tr_raised = "none"
    /\ output_content = <<>>

\* translate_example.py:43-48
ReadSrtFile ==
    /\ tpc = "read"
    /\ blocks' = Blocks(tr_content)
    /\ tpc' = "loop"
    /\ UNCHANGED <<tr_content, tr_i, translated_blocks, requests, outcomes,
                   tr_raised, output_content>>
    /\ UNCHANGED <<pipeVars, cloudVars, backVars, fmtVars, exVars, muxVars, whVars, batchVars, ccVars>>

\* the loop goes on to the next block with what it appended for this one
NextBlock(appended, kind, answer) ==
    /\ translated_blocks' = Append(translated_blocks, appended)
    /\ outcomes' = Append(outcomes, [kind |-> kind, answer |-> answer])
    /\ tr_i' = tr_i + 1
    /\ UNCHANGED <<tpc, tr_raised>>

\* translate_example.py:52-73, one iteration of the loop
TranslateBlock ==
    /\ tpc = "loop"
    /\ tr_i <= Len(blocks)
    /\ LET block == blocks[tr_i]
           rb == ReadBlock(block)
       IN  IF ~rb.well_formed
           THEN /\ NextBlock(MalformedBlock(block), "malformed", <<>>)
                /\ UNCHANGED requests
           ELSE \E reply \in Replies :
                  LET res == TranslateSync(rb.text, reply)
                  IN  /\ requests' = IF res.requested
                                     THEN Append(requests, rb.text)
                                     ELSE requests
                      /\ IF res.raised = "none"
                         THEN NextBlock(TranslatedBlock(rb.number, rb.timestamp,
                                                        res.value),
                                        IF res.requested THEN "translated"
                                                         ELSE "passed",
                                        res.value)
                         ELSE IF res.raised = "TranslationError"
                         THEN NextBlock(block, "failed", <<>>)
                         ELSE /\ tr_raised' = res.raised
                              /\ tpc' = "crashed"
                              /\ UNCHANGED <<translated_blocks, outcomes, tr_i>>
    /\ UNCHANGED <<tr_content, blocks, output_content>>
    /\ UNCHANGED <<pipeVars, cloudVars, backVars, fmtVars, exVars, muxVars, whVars, batchVars, ccVars>>

\* translate_example.py:75-78
WriteTranslated ==
    /\ tpc = "loop"
    /\ tr_i > Len(blocks)
    /\ output_content' = Join(translated_blocks, <<NL, NL>>)
    /\ tpc' = "done"
    /\ UNCHANGED <<tr_content, blocks, tr_i, translated_blocks, requests,
                   outcomes, tr_raised>>
    /\ UNCHANGED <<pipeVars, cloudVars, backVars, fmtVars, exVars, muxVars, whVars, batchVars, ccVars>>

TrNext ==
    \/ ReadSrtFile
    \/ TranslateBlock
    \/ WriteTranslated

TrInit == PipeIdle /\ CloudIdle /\ BackIdle /\ FmtIdle /\ TrStart /\ ExIdle /\ MxIdle /\ WhIdle /\ BtIdle /\ CcIdle

TranslateSpec == TrInit /\ [][TrNext]_vars

----------------------------------------------------------------------------
(* Claims about the translation of an SRT file.                            *)

\* C16: when the remote call fails for some segments, each failing segment
\* keeps its original block, every segment the server answered for carries
\* the answer, the loop goes on to the later segments, and no exception
\* leaves translate_srt_file.
C16_FailuresAreContained ==
    /\ tr_raised = "none"
    /\ tpc # "crashed"
    /\ \A i \in 1..Len(outcomes) :
          /\ outcomes[i].kind = "failed" => translated_blocks[i] = blocks[i]
          /\ outcomes[i].kind = "translated" =>
                translated_blocks[i] =
                    ReadBlock(blocks[i]).number \o <<NL>>
                    \o ReadBlock(blocks[i]).timestamp \o <<NL>>
                    \o outcomes[i].answer
    /\ tpc = "done" => Len(translated_blocks) = Len(blocks)

\* C16 witness: three segments, the second call failed, the first and the
\* third were translated, and the file was written.
C16_Witness ==
    /\ tpc = "done"
    /\ Len(outcomes) = 3
    /\ outcomes[1].kind = "translated"
    /\ outcomes[2].kind = "failed"
    /\ outcomes[3].kind = "translated"
    /\ Len(requests) = 3

\* C17: the written file has as many segments as the file read, and for
\* every segment of the file read it has the segment's index line followed
\* by the segment's timestamp line, whether its translation succeeded or
\* failed.
C17_SegmentsKeepIndexAndTime ==
    tpc = "done" =>
        LET out == Split(output_content, <<NL>>)
            seg(i) == [index |-> i, start_time |-> 2500 * (i - 1),
                       end_time |-> 2500 * i, text |-> TrSegments[i]]
        IN  /\ Len(SelectSeq(Blocks(output_content), LAMBDA b : b # <<>>))
                  = Len(TrSegments)
            /\ \A i \in 1..Len(TrSegments) :
                  \E k \in 1..(Len(out) - 1) :
                      /\ out[k] = Decimal(i)
                      /\ out[k + 1] = Split(ToSrtFormat(seg(i)), <<NL>>)[2]

\* The same at the level of the blocks the loop splits the file into: the
\* written file has as many blocks as the file read, and every block of three
\* lines or more keeps its first and its second line.
OnlyTextReplaced ==
    tpc = "done" =>
        /\ Len(translated_blocks) = Len(blocks)
        /\ Len(Blocks(output_content)) = Len(Blocks(tr_content))
        /\ \A i \in 1..Len(Blocks(output_content)) :
              ReadBlock(Blocks(tr_content)[i]).well_formed =>
                /\ ReadBlock(Blocks(output_content)[i]).well_formed
                /\ ReadBlock(Blocks(output_content)[i]).number
                      = ReadBlock(Blocks(tr_content)[i]).number
                /\ ReadBlock(Blocks(output_content)[i]).timestamp
                      = ReadBlock(Blocks(tr_content)[i]).timestamp

\* A file of two segments was written after the first was answered with a
\* two-line text and the second failed.
TwoLineAnswerWritten ==
    /\ tpc = "done"
    /\ Len(outcomes) = 2
    /\ outcomes[1].kind = "translated"
    /\ outcomes[1].answer = <<"T", NL, "U">>
    /\ outcomes[2].kind = "failed"
    /\ output_content # tr_content

\* In a file, a text that is only whitespace is never sent to the server
\* and its block is written unchanged.
WhitespaceBlockKept ==
    /\ \A j \in 1..Len(requests) : Strip(requests[j]) # <<>>
    /\ \A i \in 1..Len(outcomes) :
          (ReadBlock(blocks[i]).well_formed
             /\ Strip(ReadBlock(blocks[i]).text) = <<>>) =>
                /\ outcomes[i].kind = "passed"
                /\ outcomes[i].answer = ReadBlock(blocks[i]).text
                /\ translated_blocks[i] = blocks[i]

\* C26: a block of fewer than three lines never makes translate_srt_file
\* fail, causes no translation call, and is written unchanged; every block
\* of three lines or more before and after it is still handled by the
\* translation call.
C26_MalformedBlocksKept ==
    /\ tr_raised = "none"
    /\ tpc # "crashed"
    /\ tpc = "done" => Len(outcomes) = Len(blocks)
    /\ \A i \in 1..Len(outcomes) :
          IF Len(Split(blocks[i], <<NL>>)) < 3
          THEN /\ outcomes[i].kind = "malformed"
               /\ translated_blocks[i] = blocks[i]
          ELSE outcomes[i].kind \in {"translated", "passed", "failed"}
    /\ Len(requests) =
          Cardinality({i \in 1..Len(outcomes) :
                         outcomes[i].kind \in {"translated", "failed"}})
    /\ tpc = "done" =>
          \A i \in 1..Len(blocks) :
              Len(Split(blocks[i], <<NL>>)) < 3 =>
                  Blocks(output_content)[i] = blocks[i]

\* C26 witness: the second of three blocks had two lines, the first and
\* the third were answered by the server, and the file was written.
C26_Witness ==
    /\ tpc = "done"
    /\ Len(outcomes) = 3
    /\ outcomes[1].kind = "translated"
    /\ outcomes[2].kind = "malformed"
    /\ outcomes[3].kind = "translated"
    /\ Len(requests) = 2
    /\ Blocks(output_content)[2] = blocks[2]

----------------------------------------------------------------------------
(* FFmpegService.extract_audio as a call of its own (the extract-audio     *)
(* command and library use), where the input need not exist.               *)

\* Path.with_suffix
WithSuffix(p, suffix) == [p EXCEPT !.suffix = suffix]

\* what ffmpeg can have written to stderr when it exits non-zero
Diagnostics == {"Invalid data found", "No space left on device"}

\* Variant of ExtractFailure: the failure is raised anew with a fixed
\* message, without what ffmpeg wrote.
ExtractFailure_Generic(diag) == [class |-> "ffmpeg.Error", stderr |-> "none"]

\* ffmpeg.py:67-70: the ffmpeg.Error of ffmpeg.run is raised again as it is
ExtractFailure(diag) == [class |-> "ffmpeg.Error", stderr |-> diag]

ExStart ==
    /\ ex_video \in [dir : {"in"}, stem : {<<"x">>}, suffix : Suffixes]
    /\ ex_output \in {NoPath} \cup {p \in Paths : p.suffix = ".wav"}
    /\ ex_before \in [Paths -> {"absent", "old"}]
    /\ \A p \in Paths :
          ex_before[p] = "old" =>
             p \in {ex_video, WithSuffix(ex_video, ".wav")} \cup {ex_output}
    /\ ex_fs = ex_before
    /\ ex_pc = "call"
    /\ ex_runs = <<>>
    /\ ex_stderr = "none"
    /\ ex_ret = NoPath
    /\ ex_err = NoException

\* ffmpeg.py:16-70
ExtractAudioCall ==
    /\ ex_pc = "call"
    /\ IF ex_fs[ex_video] = "absent"
       THEN /\ ex_err' = [class |-> "FileNotFoundError", stderr |-> "none"]
            /\ ex_pc' = "raised"
            /\ UNCHANGED <<ex_fs, ex_runs, ex_stderr, ex_ret>>
       ELSE LET out == IF ex_output = NoPath
                       THEN WithSuffix(ex_video, ".wav") ELSE ex_output
            IN  /\ ex_runs' = Append(ex_runs, out)
                /\ \E ok \in (IF out = ex_video THEN {FALSE} ELSE BOOLEAN) :
                      IF ok
                      THEN /\ ex_fs' = [ex_fs EXCEPT ![out] = "wav"]
                           /\ ex_ret' = out
                           /\ ex_pc' = "returned"
                           /\ UNCHANGED <<ex_stderr, ex_err>>
                      ELSE \E diag \in Diagnostics :
                           /\ ex_stderr' = diag
                           /\ ex_fs' \in (IF out = ex_video THEN {ex_fs}
                                          ELSE {ex_fs,
                                                [ex_fs EXCEPT ![out] = "partial"]})
                           /\ ex_err' = ExtractFailure(diag)
                           /\ ex_pc' = "raised"
                           /\ UNCHANGED ex_ret
    /\ UNCHANGED <<ex_video, ex_output, ex_before>>
    /\ UNCHANGED <<pipeVars, cloudVars, backVars, fmtVars, trVars, muxVars, whVars, batchVars, ccVars>>

ExNext == ExtractAudioCall

ExInit == PipeIdle /\ CloudIdle /\ BackIdle /\ FmtIdle /\ TrIdle /\ ExStart /\ MxIdle /\ WhIdle /\ BtIdle /\ CcIdle

ExtractSpec == ExInit /\ [][ExNext]_vars

\* C19: extract_audio raises a not-found error, without running ffmpeg and
\* without touching the disk, when the input does not exist; when ffmpeg
\* fails, the call raises an error that carries what ffmpeg wrote to stderr
\* and returns no path.
C19_ExtractAudioErrors ==
    ex_pc \in {"returned", "raised"} =>
        /\ ex_before[ex_video] = "absent" =>
              /\ ex_pc = "raised"
              /\ ex_err.class = "FileNotFoundError"
              /\ ex_runs = <<>>
              /\ ex_fs = ex_before
        /\ ex_stderr # "none" =>
              /\ ex_pc = "raised"
              /\ ex_err.class = "ffmpeg.Error"
              /\ ex_err.stderr = ex_stderr
              /\ ex_ret = NoPath

\* C19 witness: ffmpeg was run for an existing input, exited non-zero and
\* the call raised.
C19_Witness ==
    /\ ex_pc = "raised"
    /\ ex_before[ex_video] = "old"
    /\ Len(ex_runs) = 1
    /\ ex_stderr = "No space left on device"

----------------------------------------------------------------------------
(* FFmpegService.add_subtitles as a call of its own, where the inputs need *)
(* not exist.                                                              *)

\* ffmpeg.py:100
SubtitledPath(p) == [p EXCEPT !.stem = Append(p.stem, "_subtitled")]

\* Variant of MuxFailure: the failure is printed and the function goes on to
\* return the output path (the shape of lib/ffmpeg/add_subtitles_to_video.py).
MuxFailure_Printed(out, diag) ==
    [pc |-> "returned", ret |-> out, err |-> NoException]

\* ffmpeg.py:135-137: the CalledProcessError of subprocess.run is raised again
MuxFailure(out, diag) ==
    [pc |-> "raised", ret |-> NoPath,
     err |-> [class |-> "CalledProcessError", stderr |-> diag]]

MxStart ==
    /\ mx_video \in [dir : {"in"}, stem : {<<"x">>}, suffix : Suffixes]
    /\ mx_subtitle \in [dir : Dirs, stem : {<<"x">>}, suffix : {".srt"}]
    /\ mx_output \in {NoPath} \cup {p \in Paths : p.stem = <<"x", "_subtitled">>}
    /\ mx_before \in [Paths -> {"absent", "old"}]
    /\ \A p \in Paths :
          mx_before[p] = "old" =>
             p \in {mx_video, mx_subtitle, mx_output, SubtitledPath(mx_video)}
    /\ mx_fs = mx_before
    /\ mx_pc = "call"
    /\ mx_runs = <<>>
    /\ mx_exit = 0
    /\ mx_ret = NoPath
    /\ mx_err = NoException

\* ffmpeg.py:72-137
AddSubtitlesCall ==
    /\ mx_pc = "call"
    /\ IF mx_fs[mx_video] = "absent" \/ mx_fs[mx_subtitle] = "absent"
       THEN /\ mx_err' = [class |-> "FileNotFoundError", stderr |-> "none"]
            /\ mx_pc' = "raised"
            /\ UNCHANGED <<mx_fs, mx_runs, mx_exit, mx_ret>>
       ELSE LET out == IF mx_output = NoPath
                       THEN SubtitledPath(mx_video) ELSE mx_output
            IN  /\ mx_runs' = Append(mx_runs, out)
                /\ \E ok \in BOOLEAN :
                      IF ok
                      THEN /\ mx_fs' = [mx_fs EXCEPT ![out] = "muxed"]
                           /\ mx_exit' = 0
                           /\ mx_ret' = out
                           /\ mx_pc' = "returned"
                           /\ UNCHANGED mx_err
                      ELSE \E diag \in Diagnostics :
                           /\ mx_exit' = 1
                           /\ mx_fs' \in {mx_fs, [mx_fs EXCEPT ![out] = "partial"]}
                           /\ mx_pc' = MuxFailure(out, diag).pc
                           /\ mx_ret' = MuxFailure(out, diag).ret
                           /\ mx_err' = MuxFailure(out, diag).err
    /\ UNCHANGED <<mx_video, mx_subtitle, mx_output, mx_before>>
    /\ UNCHANGED <<pipeVars, cloudVars, backVars, fmtVars, trVars, exVars, whVars, batchVars, ccVars>>

MxNext == AddSubtitlesCall

MxInit == PipeIdle /\ CloudIdle /\ BackIdle /\ FmtIdle /\ TrIdle /\ ExIdle /\ MxStart /\ WhIdle /\ BtIdle /\ CcIdle

MuxSpec == MxInit /\ [][MxNext]_vars

\* C21: add_subtitles raises a not-found error, before ffmpeg is run, when
\* the video or the subtitle file is missing; when ffmpeg exits non-zero
\* the call raises and never returns the output path.
C21_AddSubtitlesErrors ==
    mx_pc \in {"returned", "raised"} =>
        /\ (mx_before[mx_video] = "absent" \/ mx_before[mx_subtitle] = "absent") =>
              /\ mx_pc = "raised"
              /\ mx_err.class = "FileNotFoundError"
              /\ mx_runs = <<>>
              /\ mx_fs = mx_before
        /\ mx_exit # 0 =>
              /\ mx_pc = "raised"
              /\ mx_err.class = "CalledProcessError"
              /\ mx_ret = NoPath

\* C21 witness: both inputs existed, ffmpeg was run once for the default
\* output path and exited non-zero.
C21_Witness ==
    /\ mx_pc = "raised"
    /\ mx_output = NoPath
    /\ mx_runs = <<SubtitledPath(mx_video)>>
    /\ mx_exit = 1

----------------------------------------------------------------------------
(* WhisperService: the lazily loaded model of an instance and the calls of *)
(* transcribe on it, by one thread or by two.                              *)

MaxWhCalls == 3

Languages == {"en", "es"}

\* Variant of NeedsLoad: the model is loaded for every call.
NeedsLoad_Always(inst) == TRUE

\* whisper.py:37, self._model is None
NeedsLoad(inst) == wh_model[inst] = 0

\* whisper.py:71, language or settings.language
LanguageHint(language) ==
    IF language # "None" THEN language ELSE settings_language

\* a transcribe call ended: by an exception, or with a TranscriptionResult
\* whose language is result["language"] of the library (whisper.py:92)
EndCall(t, outcome, model, hint, detected, language) ==
    /\ results' = Append(results,
                         [thread |-> t, inst |-> w_inst[t], outcome |-> outcome,
                          model |-> model, arg |-> w_lang[t], hint |-> hint,
                          detected |-> detected, language |-> language])
    /\ wpc' = [wpc EXCEPT ![t] = "idle"]
    /\ w_got' = [w_got EXCEPT ![t] = 0]

\* whisper.py:43-48: a call of transcribe starts, on some instance and
\* with some language argument
BeginTranscribe(t) ==
    /\ wpc[t] = "idle"
    /\ w_left[t] > 0
    /\ w_left' = [w_left EXCEPT ![t] = @ - 1]
    /\ \E inst \in Instances, language \in {"None"} \cup Languages :
          /\ w_inst' = [w_inst EXCEPT ![t] = inst]
          /\ w_lang' = [w_lang EXCEPT ![t] = language]
    /\ wpc' = [wpc EXCEPT ![t] = "exists"]
    /\ UNCHANGED <<settings_language, wh_model, loads, results, w_got>>
    /\ UNCHANGED <<pipeVars, cloudVars, backVars, fmtVars, trVars, exVars, muxVars, batchVars, ccVars>>

\* whisper.py:63-64: without the audio file the call raises
\* FileNotFoundError before the model property is read
CheckAudio(t) ==
    /\ wpc[t] = "exists"
    /\ \E present \in BOOLEAN :
          IF present
          THEN /\ wpc' = [wpc EXCEPT ![t] = "check"]
               /\ UNCHANGED <<results, w_got>>
          ELSE EndCall(t, "FileNotFoundError", 0, "n/a", "n/a", "n/a")
    /\ UNCHANGED <<settings_language, wh_model, loads, w_left, w_inst, w_lang>>
    /\ UNCHANGED <<pipeVars, cloudVars, backVars, fmtVars, trVars, exVars, muxVars, batchVars, ccVars>>

\* whisper.py:37, the test of the model property
CheckModel(t) ==
    /\ wpc[t] = "check"
    /\ wpc' = [wpc EXCEPT ![t] = IF NeedsLoad(w_inst[t]) THEN "load" ELSE "use"]
    /\ UNCHANGED <<settings_language, wh_model, loads, w_left, w_inst, w_lang,
                   w_got, results>>
    /\ UNCHANGED <<pipeVars, cloudVars, backVars, fmtVars, trVars, exVars, muxVars, batchVars, ccVars>>

\* whisper.py:39: whisper.load_model is called and gives a new model
\* object, or raises
LoadModel(t) ==
    /\ wpc[t] = "load"
    /\ \E ok \in BOOLEAN :
          /\ loads' = Append(loads, [inst |-> w_inst[t], thread |-> t, ok |-> ok])
          /\ IF ok
             THEN /\ w_got' = [w_got EXCEPT ![t] = Len(loads) + 1]
                  /\ wpc' = [wpc EXCEPT ![t] = "store"]
             ELSE /\ wpc' = [wpc EXCEPT ![t] = "raise"]
                  /\ UNCHANGED w_got
    /\ UNCHANGED <<settings_language, wh_model, w_left, w_inst, w_lang, results>>
    /\ UNCHANGED <<pipeVars, cloudVars, backVars, fmtVars, trVars, exVars, muxVars, batchVars, ccVars>>

\* whisper.py:39 and 69: the exception of whisper.load_model leaves the
\* model property and transcribe, with self._model not assigned
LoadRaises(t) ==
    /\ wpc[t] = "raise"
    /\ EndCall(t, "load failed", 0, "n/a", "n/a", "n/a")
    /\ UNCHANGED <<settings_language, wh_model, loads, w_left, w_inst, w_lang>>
    /\ UNCHANGED <<pipeVars, cloudVars, backVars, fmtVars, trVars, exVars, muxVars, batchVars, ccVars>>

\* whisper.py:39: load_model has returned and its result is assigned to
\* self._model
StoreModel(t) ==
    /\ wpc[t] = "store"
    /\ wh_model' = [wh_model EXCEPT ![w_inst[t]] = w_got[t]]
    /\ wpc' = [wpc EXCEPT ![t] = "use"]
    /\ UNCHANGED <<settings_language, loads, w_left, w_inst, w_lang, w_got, results>>
    /\ UNCHANGED <<pipeVars, cloudVars, backVars, fmtVars, trVars, exVars, muxVars, batchVars, ccVars>>

\* whisper.py:41: the property returns what self._model holds now
UseModel(t) ==
    /\ wpc[t] = "use"
    /\ w_got' = [w_got EXCEPT ![t] = wh_model[w_inst[t]]]
    /\ wpc' = [wpc EXCEPT ![t] = "run"]
    /\ UNCHANGED <<settings_language, wh_model, loads, w_left, w_inst, w_lang,
                   results>>
    /\ UNCHANGED <<pipeVars, cloudVars, backVars, fmtVars, trVars, exVars, muxVars, batchVars, ccVars>>

\* whisper.py:69-94: the model object transcribes with the hint of line
\* 71 and the call returns, or the model raises.  What the library puts in
\* result["language"] is the library's choice; line 92 passes it on.
RunModel(t) ==
    /\ wpc[t] = "run"
    /\ \E detected \in Languages, ok \in BOOLEAN :
          IF ok
          THEN EndCall(t, "ok", w_got[t], LanguageHint(w_lang[t]), detected,
                       detected)
          ELSE EndCall(t, "whisper failed", w_got[t],
                       LanguageHint(w_lang[t]), "n/a", "n/a")
    /\ UNCHANGED <<settings_language, wh_model, loads, w_left, w_inst, w_lang>>
    /\ UNCHANGED <<pipeVars, cloudVars, backVars, fmtVars, trVars, exVars, muxVars, batchVars, ccVars>>

WhNext ==
    \/ \E t \in Threads : BeginTranscribe(t)
    \/ \E t \in Threads : CheckAudio(t)
    \/ \E t \in Threads : CheckModel(t)
    \/ \E t \in Threads : LoadModel(t)
    \/ \E t \in Threads : LoadRaises(t)
    \/ \E t \in Threads : StoreModel(t)
    \/ \E t \in Threads : UseModel(t)
    \/ \E t \in Threads : RunModel(t)

\* one thread makes its calls one after the other
WhInit == PipeIdle /\ CloudIdle /\ BackIdle /\ WhStart({"t1"}, MaxWhCalls) /\ FmtIdle /\ TrIdle /\ ExIdle /\ MxIdle /\ BtIdle /\ CcIdle

WhisperSpec == WhInit /\ [][WhNext]_vars

\* two threads make one call each at the same time
WhThreadsInit == PipeIdle /\ CloudIdle /\ BackIdle /\ WhStart(Threads, 1) /\ FmtIdle /\ TrIdle /\ ExIdle /\ MxIdle /\ BtIdle /\ CcIdle

WhisperThreadsSpec == WhThreadsInit /\ [][WhNext]_vars

\* C23: on one instance, under sequential calls, the loader is not called
\* again once a load has succeeded, every call that transcribes uses the
\* model its own instance loaded, and an instance holds no model that was
\* loaded for another instance.
C23_ModelLoadedOncePerInstance ==
    /\ \A i \in 1..Len(loads) : \A j \in (i + 1)..Len(loads) :
          loads[i].inst = loads[j].inst => ~loads[i].ok
    /\ \A k \in 1..Len(results) :
          results[k].outcome = "ok" =>
             /\ results[k].model # 0
             /\ loads[results[k].model].ok
             /\ loads[results[k].model].inst = results[k].inst
    /\ \A inst \in Instances :
          wh_model[inst] # 0 => loads[wh_model[inst]].inst = inst

\* C23 witness: two calls on s1 used the one model loaded for s1, and a
\* call on s2 loaded and used another.
C23_Witness ==
    /\ Len(results) = 3
    /\ Len(loads) = 2
    /\ results[1].inst = "s1" /\ results[1].outcome = "ok"
    /\ results[2].inst = "s1" /\ results[2].outcome = "ok"
    /\ results[3].inst = "s2" /\ results[3].outcome = "ok"
    /\ results[1].model = results[2].model
    /\ results[3].model # results[1].model

\* C24: a call without a language passes no language hint to the model,
\* and the result reports the language the model detected.
C24_NoLanguageMeansAutoDetect ==
    \A k \in 1..Len(results) :
        (results[k].outcome = "ok" /\ results[k].arg = "None") =>
            /\ results[k].hint = "None"
            /\ results[k].language = results[k].detected

\* C27: once a load has failed on an instance, no later call on that
\* instance succeeds and the loader is not called for it again.
C27_LoadFailureIsFatal ==
    /\ \A i \in 1..Len(results) : \A j \in (i + 1)..Len(results) :
          (results[i].inst = results[j].inst
             /\ results[i].outcome = "load failed") => results[j].outcome # "ok"
    /\ \A i \in 1..Len(loads) : \A j \in (i + 1)..Len(loads) :
          loads[i].inst = loads[j].inst => loads[i].ok

\* C28: when two threads call transcribe at the same time on one instance,
\* the loader succeeds at most once for that instance and the calls that
\* transcribe use the same model object.
C28_OneLoadUnderConcurrency ==
    /\ \A i \in 1..Len(loads) : \A j \in (i + 1)..Len(loads) :
          loads[i].inst = loads[j].inst => ~(loads[i].ok /\ loads[j].ok)
    /\ \A i \in 1..Len(results) : \A j \in (i + 1)..Len(results) :
          (results[i].inst = results[j].inst /\ results[i].outcome = "ok"
             /\ results[j].outcome = "ok") => results[i].model = results[j].model

----------------------------------------------------------------------------
(* LibreTranslateClient.translate_batch and translate_batch_sync: the same *)
(* loop, over translate and translate_sync.                                *)

MaxBatch == 3

\* texts handed to the batch: words, a text of whitespace only, and the
\* empty text
BtTexts == {<<"a">>, <<"b">>, <<" ", NL>>, <<>>}

\* translator.py:180 and 212, the two batch functions
BatchFunctions == {"translate_batch", "translate_batch_sync"}

\* translator.py:207 and 237: translate_batch awaits translate,
\* translate_batch_sync calls translate_sync
CallOne(fn, text, reply) ==
    IF fn = "translate_batch" THEN Translate(text, reply)
    ELSE TranslateSync(text, reply)

\* Variant of NextText: every iteration takes the last text.
NextText_Last(texts, i) == texts[Len(texts)]

\* translator.py:236, the text of iteration i of `for text in texts`
NextText(texts, i) == texts[i]

BtStart ==
    /\ bt_fn \in BatchFunctions
    /\ bt_texts \in SeqsUpTo(BtTexts, MaxBatch)
    /\ bt_pc = "loop"
    /\ bt_i = 1
    /\ bt_results = <<>>
    /\ bt_calls = <<>>
    /\ bt_ret = <<>>
    /\ bt_raised = "none"

\* translator.py:200-201 and 232-233, if not texts: return []
ReturnEmpty ==
    /\ bt_pc = "loop"
    /\ bt_texts = <<>>
    /\ bt_pc' = "returned"
    /\ bt_ret' = <<>>
    /\ UNCHANGED <<bt_fn, bt_texts, bt_i, bt_results, bt_calls, bt_raised>>
    /\ UNCHANGED <<pipeVars, cloudVars, backVars, fmtVars, trVars, exVars, muxVars, whVars, ccVars>>

\* translator.py:206-208 and 236-238, one iteration; an exception of the
\* call leaves the loop and the batch function
TranslateOne ==
    /\ bt_pc = "loop"
    /\ bt_texts # <<>>
    /\ bt_i <= Len(bt_texts)
    /\ \E reply \in Replies :
          LET text == NextText(bt_texts, bt_i)
              res == CallOne(bt_fn, text, reply)
          IN  /\ bt_calls' = Append(bt_calls, [text |-> text, reply |-> reply,
                                               requested |-> res.requested])
              /\ IF res.raised = "none"
                 THEN /\ bt_results' = Append(bt_results, res.value)
                      /\ bt_i' = bt_i + 1
                      /\ UNCHANGED <<bt_pc, bt_raised>>
                 ELSE /\ bt_raised' = res.raised
                      /\ bt_pc' = "raised"
                      /\ UNCHANGED <<bt_results, bt_i>>
    /\ UNCHANGED <<bt_fn, bt_texts, bt_ret>>
    /\ UNCHANGED <<pipeVars, cloudVars, backVars, fmtVars, trVars, exVars, muxVars, whVars, ccVars>>

\* translator.py:210 and 240, return results
ReturnResults ==
    /\ bt_pc = "loop"
    /\ bt_texts # <<>>
    /\ bt_i > Len(bt_texts)
    /\ bt_ret' = bt_results
    /\ bt_pc' = "returned"
    /\ UNCHANGED <<bt_fn, bt_texts, bt_i, bt_results, bt_calls, bt_raised>>
    /\ UNCHANGED <<pipeVars, cloudVars, backVars, fmtVars, trVars, exVars, muxVars, whVars, ccVars>>

BtNext ==
    \/ ReturnEmpty
    \/ TranslateOne
    \/ ReturnResults

BtInit == PipeIdle /\ CloudIdle /\ BackIdle /\ FmtIdle /\ TrIdle /\ ExIdle /\ MxIdle /\ WhIdle /\ BtStart /\ CcIdle

BatchSpec == BtInit /\ [][BtNext]_vars

\* C29: the batch calls translate (translate_sync) for the texts one at a time in input
\* order; when every call succeeds the list returned is as long as the input
\* and its i-th element is what the call for texts[i] returned; an empty
\* input returns the empty list without a call; when the call for texts[i]
\* fails the batch raises TranslationError and makes no call for a later
\* text.
C29_BatchInOrder ==
    /\ \A k \in 1..Len(bt_calls) : bt_calls[k].text = bt_texts[k]
    /\ Len(bt_calls) <= Len(bt_texts)
    /\ \A k \in 1..Len(bt_results) :
          bt_results[k] = CallOne(bt_fn, bt_texts[k], bt_calls[k].reply).value
    /\ bt_pc = "returned" =>
          /\ bt_raised = "none"
          /\ Len(bt_ret) = Len(bt_texts)
          /\ Len(bt_calls) = Len(bt_texts)
          /\ \A k \in 1..Len(bt_texts) :
                bt_ret[k] = IF bt_calls[k].requested
                            THEN bt_calls[k].reply.answer
                            ELSE bt_texts[k]
    /\ bt_texts = <<>> => (bt_calls = <<>> /\ bt_ret = <<>>)
    /\ bt_pc = "raised" =>
          /\ bt_raised = "TranslationError"
          /\ bt_calls # <<>>
          /\ bt_calls[Len(bt_calls)].reply.kind # "ok"
          /\ \A k \in 1..(Len(bt_calls) - 1) :
                ~bt_calls[k].requested \/ bt_calls[k].reply.kind = "ok"

\* C29 witness: the server answered the call for the first of three texts,
\* the call for the second failed, and the batch raised with the third text
\* never sent.
C29_Witness ==
    /\ bt_pc = "raised"
    /\ bt_texts = <<<<"a">>, <<"b">>, <<"a">>>>
    /\ Len(bt_calls) = 2
    /\ bt_calls[1].reply.kind = "ok"
    /\ bt_results = <<bt_calls[1].reply.answer>>

\* The other case: three different texts, each call succeeded, and the
\* list was returned.
BatchReturned ==
    /\ bt_pc = "returned"
    /\ bt_texts = <<<<"b">>, <<" ", NL>>, <<"a">>>>
    /\ Len(bt_ret) = 3

\* a text that is empty or made of whitespace only
Whitespace(text) == \A j \in 1..Len(text) : IsSpace(text[j])

\* C18: for a text that is empty or only whitespace, translate and
\* translate_sync return the text they were given and send no request to
\* the translation server; every other text is sent.
C18_BlankTextNotSent ==
    \A k \in 1..Len(bt_calls) :
        IF Whitespace(bt_calls[k].text)
        THEN /\ ~bt_calls[k].requested
             /\ bt_raised = "none" \/ k < Len(bt_calls)
             /\ k <= Len(bt_results)
             /\ bt_results[k] = bt_calls[k].text
        ELSE bt_calls[k].requested

\* C18 witness: translate was called with the empty text, with a text of
\* whitespace and with a word; only the word was sent, and the first two
\* came back as they were given.
C18_Witness ==
    /\ bt_fn = "translate_batch"
    /\ bt_pc = "returned"
    /\ bt_texts = <<<<>>, <<" ", NL>>, <<"a">>>>
    /\ Len(bt_calls) = 3
    /\ ~bt_calls[1].requested
    /\ ~bt_calls[2].requested
    /\ bt_calls[3].requested
    /\ bt_ret[1] = <<>>
    /\ bt_ret[2] = <<" ", NL>>
    /\ bt_ret[3] = bt_calls[3].reply.answer

\* The same through translate_sync, the empty text last.
BlankTextsThroughSync ==
    /\ bt_fn = "translate_batch_sync"
    /\ bt_pc = "returned"
    /\ bt_texts = <<<<"a">>, <<" ", NL>>, <<>>>>
    /\ bt_calls[1].requested
    /\ ~bt_calls[2].requested
    /\ ~bt_calls[3].requested
    /\ bt_ret[3] = <<>>

----------------------------------------------------------------------------
(* Two transcribe commands at the same time: the files each one writes,    *)
(* reads and deletes.                                                      *)

\* cli.py:105-106
CcOutDir(r) == IF cc_out[r] = "None" THEN cc_video[r].dir ELSE cc_out[r]

\* cli.py:127, 134, 148
audio_path(r) == [dir |-> CcOutDir(r), stem |-> cc_video[r].stem, kind |-> ".wav"]
srt_path(r) == [dir |-> CcOutDir(r), stem |-> cc_video[r].stem, kind |-> ".srt"]
output_video(r) ==
    [dir |-> CcOutDir(r), stem |-> cc_video[r].stem, kind |-> "_subtitled"]

\* one access of run r to an artifact, with the run that wrote what is there
Touch(r, op, p) == [run |-> r, op |-> op, path |-> p, writer |-> cc_fs[p]]

\* the except clause of cli.py:171-174 ends the run
CcGoto(r, stage) == cc_pc' = [cc_pc EXCEPT ![r] = stage]

\* cli.py:126-129, ffmpeg.py:37-62: ffmpeg is started.  It fails at once
\* (the input is not usable) and extract_audio re-raises, or it opens the
\* audio file for writing, over whatever is there (overwrite_output).
CcExtractAudio(r) ==
    /\ cc_pc[r] = "extract"
    /\ \E opened \in BOOLEAN :
          IF opened
          THEN /\ cc_touches' = cc_touches \cup {Touch(r, "write", audio_path(r))}
               /\ cc_fs' = [cc_fs EXCEPT ![audio_path(r)] = r]
               /\ CcGoto(r, "extracting")
          ELSE /\ CcGoto(r, "exit")
               /\ UNCHANGED <<cc_touches, cc_fs>>
    /\ UNCHANGED <<cc_video, cc_out, cc_add, cc_keep>>
    /\ UNCHANGED <<pipeVars, cloudVars, backVars, fmtVars, trVars, exVars, muxVars, whVars, batchVars>>

\* ffmpeg.py:58-70: ffmpeg.run returns, or raises ffmpeg.Error with the
\* file left as far as it was written
CcExtractReturns(r) ==
    /\ cc_pc[r] = "extracting"
    /\ \E ok \in BOOLEAN : CcGoto(r, IF ok THEN "transcribe" ELSE "exit")
    /\ UNCHANGED <<cc_video, cc_out, cc_add, cc_keep, cc_fs, cc_touches>>
    /\ UNCHANGED <<pipeVars, cloudVars, backVars, fmtVars, trVars, exVars, muxVars, whVars, batchVars>>

\* cli.py:132-139, whisper.py:63-64: the test that the audio file is there
CcTranscribe(r) ==
    /\ cc_pc[r] = "transcribe"
    /\ CcGoto(r, IF cc_fs[audio_path(r)] = "absent" THEN "exit" ELSE "load")
    /\ UNCHANGED <<cc_video, cc_out, cc_add, cc_keep, cc_fs, cc_touches>>
    /\ UNCHANGED <<pipeVars, cloudVars, backVars, fmtVars, trVars, exVars, muxVars, whVars, batchVars>>

\* whisper.py:34-41 and 69: self.model loads the model of the run's new
\* WhisperService (cli.py:133) before the audio is opened
CcLoadModel(r) ==
    /\ cc_pc[r] = "load"
    /\ \E ok \in BOOLEAN : CcGoto(r, IF ok THEN "read" ELSE "exit")
    /\ UNCHANGED <<cc_video, cc_out, cc_add, cc_keep, cc_fs, cc_touches>>
    /\ UNCHANGED <<pipeVars, cloudVars, backVars, fmtVars, trVars, exVars, muxVars, whVars, batchVars>>

\* whisper.py:69-75: the model reads the audio file, if it is still there
CcReadAudio(r) ==
    /\ cc_pc[r] = "read"
    /\ IF cc_fs[audio_path(r)] = "absent"
       THEN /\ CcGoto(r, "exit")
            /\ UNCHANGED cc_touches
       ELSE /\ cc_touches' = cc_touches \cup {Touch(r, "read", audio_path(r))}
            /\ \E ok \in BOOLEAN : CcGoto(r, IF ok THEN "save" ELSE "exit")
    /\ UNCHANGED <<cc_video, cc_out, cc_add, cc_keep, cc_fs>>
    /\ UNCHANGED <<pipeVars, cloudVars, backVars, fmtVars, trVars, exVars, muxVars, whVars, batchVars>>

\* whisper.py:117-124, transcription.py:62-70: the file cannot be opened,
\* or it is opened and written, completely or not
CcSaveSrt(r) ==
    /\ cc_pc[r] = "save"
    /\ \E opened \in BOOLEAN :
          IF opened
          THEN /\ cc_touches' = cc_touches \cup {Touch(r, "write", srt_path(r))}
               /\ cc_fs' = [cc_fs EXCEPT ![srt_path(r)] = r]
               /\ \E ok \in BOOLEAN : CcGoto(r, IF ok THEN "mux" ELSE "exit")
          ELSE /\ CcGoto(r, "exit")
               /\ UNCHANGED <<cc_touches, cc_fs>>
    /\ UNCHANGED <<cc_video, cc_out, cc_add, cc_keep>>
    /\ UNCHANGED <<pipeVars, cloudVars, backVars, fmtVars, trVars, exVars, muxVars, whVars, batchVars>>

\* cli.py:146-150, ffmpeg.py:95-130: without the subtitle file the call
\* raises; else ffmpeg is started, and fails at once or goes on.  (The
\* videos are not among the artifacts; the test of ffmpeg.py:93 is in
\* AddSubtitlesCall.)
CcAddSubtitles(r) ==
    /\ cc_pc[r] = "mux"
    /\ cc_add[r]
    /\ IF cc_fs[srt_path(r)] = "absent"
       THEN CcGoto(r, "exit")
       ELSE \E started \in BOOLEAN :
              CcGoto(r, IF started THEN "mux_read" ELSE "exit")
    /\ UNCHANGED <<cc_video, cc_out, cc_add, cc_keep, cc_fs, cc_touches>>
    /\ UNCHANGED <<pipeVars, cloudVars, backVars, fmtVars, trVars, exVars, muxVars, whVars, batchVars>>

\* ffmpeg.py:125-130: while add_subtitles waits, ffmpeg reads the subtitle
\* file as it is then
CcMuxReads(r) ==
    /\ cc_pc[r] = "mux_read"
    /\ cc_touches' = cc_touches \cup {Touch(r, "read", srt_path(r))}
    /\ CcGoto(r, "mux_open")
    /\ UNCHANGED <<cc_video, cc_out, cc_add, cc_keep, cc_fs>>
    /\ UNCHANGED <<pipeVars, cloudVars, backVars, fmtVars, trVars, exVars, muxVars, whVars, batchVars>>

\* ffmpeg.py:125-137: ffmpeg opens the subtitled video for writing (-y),
\* writes it, completely or not, and subprocess.run returns or raises
CcMuxWrites(r) ==
    /\ cc_pc[r] = "mux_open"
    /\ cc_touches' = cc_touches \cup {Touch(r, "write", output_video(r))}
    /\ cc_fs' = [cc_fs EXCEPT ![output_video(r)] = r]
    /\ \E ok \in BOOLEAN : CcGoto(r, IF ok THEN "cleanup" ELSE "exit")
    /\ UNCHANGED <<cc_video, cc_out, cc_add, cc_keep>>
    /\ UNCHANGED <<pipeVars, cloudVars, backVars, fmtVars, trVars, exVars, muxVars, whVars, batchVars>>

\* cli.py:151-152
CcSkipSubtitles(r) ==
    /\ cc_pc[r] = "mux"
    /\ ~cc_add[r]
    /\ CcGoto(r, "cleanup")
    /\ UNCHANGED <<cc_video, cc_out, cc_add, cc_keep, cc_fs, cc_touches>>
    /\ UNCHANGED <<pipeVars, cloudVars, backVars, fmtVars, trVars, exVars, muxVars, whVars, batchVars>>

\* cli.py:154-157
CcCleanup(r) ==
    /\ cc_pc[r] = "cleanup"
    /\ IF ~cc_keep[r] /\ cc_fs[audio_path(r)] # "absent"
       THEN /\ cc_touches' = cc_touches \cup {Touch(r, "delete", audio_path(r))}
            /\ cc_fs' = [cc_fs EXCEPT ![audio_path(r)] = "absent"]
       ELSE UNCHANGED <<cc_touches, cc_fs>>
    /\ CcGoto(r, "exit")
    /\ UNCHANGED <<cc_video, cc_out, cc_add, cc_keep>>
    /\ UNCHANGED <<pipeVars, cloudVars, backVars, fmtVars, trVars, exVars, muxVars, whVars, batchVars>>

TwoRunsNext ==
    \E r \in Runs :
        \/ CcExtractAudio(r)
        \/ CcExtractReturns(r)
        \/ CcTranscribe(r)
        \/ CcLoadModel(r)
        \/ CcReadAudio(r)
        \/ CcSaveSrt(r)
        \/ CcAddSubtitles(r)
        \/ CcMuxReads(r)
        \/ CcMuxWrites(r)
        \/ CcSkipSubtitles(r)
        \/ CcCleanup(r)

TwoRunsInit == PipeIdle /\ CloudIdle /\ BackIdle /\ FmtIdle /\ TrIdle /\ ExIdle /\ MxIdle /\ WhIdle /\ BtIdle /\ CcStart(Runs)

TwoRunsSpec == TwoRunsInit /\ [][TwoRunsNext]_vars

\* C25: of two runs at the same time, neither reads, overwrites or deletes
\* an audio file, SRT file or subtitled video that the other run wrote.
C25_NoSharedArtifacts ==
    \A e \in cc_touches : e.writer \in {"absent", e.run}

\* Runs whose artifact paths differ do not touch each other's files.
DistinctPathsAreSeparate ==
    audio_path("r1") # audio_path("r2") =>
        \A e \in cc_touches : e.writer \in {"absent", e.run}

\* Both runs have ended after the cleanup, on different artifact paths.
BothRunsCleanedUp ==
    /\ audio_path("r1") # audio_path("r2")
    /\ \A r \in Runs : cc_pc[r] = "exit" /\ cc_add[r] /\ ~cc_keep[r]
    /\ \A r \in Runs :
          [run |-> r, op |-> "delete", path |-> audio_path(r), writer |-> r]
              \in cc_touches
    /\ Cardinality(cc_touches) = 12

----------------------------------------------------------------------------
(* The transcribe command.                                                 *)

PipeStart ==
    /\ video_path \in [dir : {"in"}, stem : {<<"x">>}, suffix : Suffixes]
    /\ output_dir \in {"None"} \cup Dirs
    /\ add_to_video \in BOOLEAN
    /\ keep_audio \in BOOLEAN
    /\ \E old \in SUBSET ({AudioPath, SrtPath, OutputVideoPath} \ {video_path}) :
          fs = [p \in Paths |->
                  IF p = video_path THEN "video"
                  ELSE IF p \in old THEN "old" ELSE "absent"]
    /\ pc = "probe"
    /\ calls = <<>>
    /\ extracted = FALSE
    /\ saved = FALSE
    /\ raised = NoError
    /\ exit_code = 0
    /\ error_msg = <<>>
    /\ reported = FALSE

\* cli.py:112-123, ffmpeg.py:170-177
Probe ==
    /\ pc = "probe"
    /\ IF ~Exists(video_path)
       THEN /\ Raise("probe", "Video file not found")
            /\ UNCHANGED calls
       ELSE /\ Invoke("probe")
            /\ \E ok \in BOOLEAN :
                  IF ok THEN NoRaise("extract")
                        ELSE Raise("probe", "ffprobe error")
    /\ UNCHANGED <<cloudVars, backVars, svcVars>>
    /\ UNCHANGED <<video_path, output_dir, add_to_video, keep_audio, fs,
                   extracted, saved>>

\* Variant of ExtractAudio: a failure of ffmpeg is printed and not re-raised
\* (the shape of lib/ffmpeg/add_subtitles_to_video.py), so the command goes on.
ExtractAudio_Swallow ==
    /\ pc = "extract"
    /\ Exists(video_path)
    /\ Invoke("extract")
    /\ \E ok \in (IF AudioPath = video_path THEN {FALSE} ELSE BOOLEAN) :
          IF ok
          THEN /\ fs' = [fs EXCEPT ![AudioPath] = "wav"]
               /\ extracted' = TRUE
          ELSE /\ fs' \in (IF AudioPath = video_path
                           THEN {fs} ELSE AfterFailedWrite(AudioPath))
               /\ UNCHANGED extracted
    /\ NoRaise("transcribe")
    /\ UNCHANGED <<cloudVars, backVars, svcVars>>
    /\ UNCHANGED <<video_path, output_dir, add_to_video, keep_audio, saved>>

\* cli.py:126-129, ffmpeg.py:37-70.  ffmpeg refuses an output that is its
\* own input and exits non-zero without touching the file.
ExtractAudio ==
    /\ pc = "extract"
    /\ IF ~Exists(video_path)
       THEN /\ Raise("extract", "Video file not found")
            /\ UNCHANGED <<calls, fs, extracted>>
       ELSE /\ Invoke("extract")
            /\ \E ok \in (IF AudioPath = video_path THEN {FALSE} ELSE BOOLEAN) :
                  IF ok
                  THEN /\ fs' = [fs EXCEPT ![AudioPath] = "wav"]
                       /\ extracted' = TRUE
                       /\ NoRaise("transcribe")
                  ELSE /\ fs' \in (IF AudioPath = video_path
                                   THEN {fs} ELSE AfterFailedWrite(AudioPath))
                       /\ UNCHANGED extracted
                       /\ Raise("extract", "ffmpeg error")
    /\ UNCHANGED <<cloudVars, backVars, svcVars>>
    /\ UNCHANGED <<video_path, output_dir, add_to_video, keep_audio, saved>>

\* cli.py:132-139, whisper.py:63-94 (through transcribe_and_save, 114)
Transcribe ==
    /\ pc = "transcribe"
    /\ IF ~Exists(AudioPath)
       THEN /\ Raise("transcribe", "Audio file not found")
            /\ UNCHANGED calls
       ELSE /\ Invoke("transcribe")
            /\ \E outcome \in {"ok", "load failed", "whisper failed"} :
                  IF outcome = "ok" THEN NoRaise("save")
                                    ELSE Raise("transcribe", outcome)
    /\ UNCHANGED <<cloudVars, backVars, svcVars>>
    /\ UNCHANGED <<video_path, output_dir, add_to_video, keep_audio, fs,
                   extracted, saved>>

\* whisper.py:117-124, transcription.py:62-70
SaveSrt ==
    /\ pc = "save"
    /\ Invoke("save")
    /\ \E ok \in BOOLEAN :
          IF ok
          THEN /\ fs' = [fs EXCEPT ![SrtPath] = "srt"]
               /\ saved' = TRUE
               /\ NoRaise("mux")
          ELSE /\ fs' \in AfterFailedWrite(SrtPath)
               /\ UNCHANGED saved
               /\ Raise("save", "write error")
    /\ UNCHANGED <<cloudVars, backVars, svcVars>>
    /\ UNCHANGED <<video_path, output_dir, add_to_video, keep_audio, extracted>>

\* cli.py:146-150, ffmpeg.py:93-137
AddSubtitles ==
    /\ pc = "mux"
    /\ add_to_video
    /\ IF ~Exists(video_path)
       THEN /\ Raise("mux", "Video file not found")
            /\ UNCHANGED <<calls, fs>>
       ELSE IF ~Exists(SrtPath)
       THEN /\ Raise("mux", "Subtitle file not found")
            /\ UNCHANGED <<calls, fs>>
       ELSE /\ Invoke("mux")
            /\ \E ok \in BOOLEAN :
                  IF ok
                  THEN /\ fs' = [fs EXCEPT ![OutputVideoPath] = "muxed"]
                       /\ NoRaise("cleanup")
                  ELSE /\ fs' \in AfterFailedWrite(OutputVideoPath)
                       /\ Raise("mux", "ffmpeg mux error")
    /\ UNCHANGED <<cloudVars, backVars, svcVars>>
    /\ UNCHANGED <<video_path, output_dir, add_to_video, keep_audio,
                   extracted, saved>>

\* cli.py:151-152
SkipSubtitles ==
    /\ pc = "mux"
    /\ ~add_to_video
    /\ NoRaise("cleanup")
    /\ UNCHANGED <<cloudVars, backVars, svcVars>>
    /\ UNCHANGED <<video_path, output_dir, add_to_video, keep_audio, fs, calls,
                   extracted, saved>>

\* cli.py:154-157
Cleanup ==
    /\ pc = "cleanup"
    /\ fs' = IF ~keep_audio /\ Exists(AudioPath)
             THEN [fs EXCEPT ![AudioPath] = "absent"]
             ELSE fs
    /\ NoRaise("summary")
    /\ UNCHANGED <<cloudVars, backVars, svcVars>>
    /\ UNCHANGED <<video_path, output_dir, add_to_video, keep_audio, calls,
                   extracted, saved>>

\* cli.py:159-169
Summary ==
    /\ pc = "summary"
    /\ reported' = TRUE
    /\ pc' = "exit"
    /\ UNCHANGED <<cloudVars, backVars, svcVars>>
    /\ UNCHANGED <<video_path, output_dir, add_to_video, keep_audio, fs, calls,
                   extracted, saved, raised, exit_code, error_msg>>

PipeNext ==
    \/ Probe
    \/ ExtractAudio
    \/ Transcribe
    \/ SaveSrt
    \/ AddSubtitles
    \/ SkipSubtitles
    \/ Cleanup
    \/ Summary

PipeInit == PipeStart /\ CloudIdle /\ BackIdle /\ SvcIdle

PipelineSpec == PipeInit /\ [][PipeNext]_vars

----------------------------------------------------------------------------
(* Claims about the transcribe command.                                    *)

\* cli.py:125-152: the order of the statements of the try block
StageOrder == <<"probe", "extract", "transcribe", "save", "mux">>
StageRank(s) == CHOOSE i \in 1..Len(StageOrder) : StageOrder[i] = s

\* C1: with keep_audio = false, whenever the run has ended after the audio
\* was extracted (normally or by a failure of a later stage), the extracted
\* audio file is no longer on disk.
C1_AudioDeletedOnEveryExit ==
    (pc = "exit" /\ ~keep_audio /\ extracted) => ~Exists(AudioPath)

\* C2: the stages are invoked strictly in the order probe, extract audio,
\* transcribe, write SRT, mux (mux only with add_to_video); transcription is
\* invoked only after a successful extraction and with the audio file on
\* disk, muxing only after the SRT was written and with both the video and
\* the SRT file on disk.
C2_StagesInOrder ==
    \A i \in 1..Len(calls) :
        /\ i <= Len(StageOrder)
        /\ calls[i].stage = StageOrder[i]
        /\ calls[i].stage = "transcribe" =>
              extracted /\ AudioPath \in calls[i].present
        /\ calls[i].stage = "mux" =>
              /\ add_to_video
              /\ saved
              /\ video_path \in calls[i].present
              /\ SrtPath \in calls[i].present

\* C2 witness: a complete run with muxing, all five stages invoked.
C2_Witness ==
    pc = "exit" /\ reported /\ add_to_video /\ Len(calls) = 5

\* C3: once a stage has failed, no later stage is invoked, success is never
\* reported, and the run ends with exit code 1 and the message of the
\* failing stage's error.
C3_FailureAborts ==
    raised # NoError =>
        /\ pc = "exit"
        /\ exit_code = 1
        /\ ~reported
        /\ error_msg = <<"Error: ", raised.msg>>
        /\ \A i \in 1..Len(calls) :
              StageRank(calls[i].stage) <= StageRank(raised.stage)

\* C3 witness: the SRT write failed in a run that was asked to mux.
C3_Witness ==
    raised.stage = "save" /\ add_to_video /\ pc = "exit" /\ exit_code = 1

\* C20: a failed audio extraction leaves no partially written file behind:
\* once the run has ended in a failure of the extraction stage, the audio
\* output path holds no file written by that attempt.
C20_NoPartialAudioAfterFailure ==
    (pc = "exit" /\ raised.stage = "extract") => fs[AudioPath] # "partial"

\* C30: a run never deletes or overwrites its input file, whatever the
\* name of the input and the output directory: the input path holds the
\* input video in every state of the run.
C30_InputNeverTouched ==
    fs[video_path] = "video"

\* The case of an input named x.wav: the audio path may be the input path,
\* and the input is still there in every state.
WavInputKept ==
    video_path.suffix = ".wav" => fs[video_path] = "video"

\* A run on in/x.wav without an output directory has ended.
WavInputRunEnded ==
    /\ video_path.suffix = ".wav"
    /\ AudioPath = video_path
    /\ ~keep_audio
    /\ pc = "exit"

====
